---- MODULE Spec2Model ----
(***************************************************************************)
(* State-machine model of the concurrent task-orchestration core:          *)
(*   - TaskQueue (app/services/task_queue.py): bounded priority queue,     *)
(*     worker pool, retry by re-enqueue, start()/stop() lifecycle;         *)
(*   - ConcurrentImageGenerator (app/services/concurrent_image_generator   *)
(*     .py): fan-out/fan-in over a batch of generation jobs;               *)
(*   - ConcurrentUpscaler (app/services/concurrent_upscaler.py): batches   *)
(*     of upscale jobs on the instance's thread pool, with fallback to     *)
(*     the original image;                                                 *)
(*   - ParallelWorkflowManager (app/services/parallel_workflow_manager     *)
(*     .py): one request through analysis, generation, the concurrent      *)
(*     upscale and video tasks, saving and the report.                     *)
(* Every coroutine is modelled at the granularity of the cooperative       *)
(* scheduler: one action is one run of a coroutine between two points      *)
(* where it can be suspended (an await that does not complete at once).    *)
(***************************************************************************)
EXTENDS Integers, Sequences, FiniteSets, TLC

(* ------------------------------ bounds --------------------------------- *)
MaxTasks == 2          \* Task objects created by add_task calls
MaxWorkerObjs == 2     \* worker coroutines created by all start() calls together
MaxPriority == 2       \* add_task priorities are 1..MaxPriority
MaxRetriesArg == 2     \* add_task max_retries are 0 or MaxRetriesArg
MaxWorkers == 2        \* TaskQueue(max_workers=...) is in 1..MaxWorkers
MaxQueueSize == 2      \* TaskQueue(max_queue_size=...) is in 1..MaxQueueSize
MaxClockTies == 1      \* how often time.time() may repeat its previous value
MaxIdReuse == 1        \* add_task calls given a task_id that is already in use
MaxWaitTimeouts == 1   \* wait_for_result calls that end in TimeoutError

MaxJobs == 3           \* generation jobs in one batch
MaxOutputs == 2        \* number_of_outputs is in 0..MaxOutputs
MaxCount == 1          \* white/plain/random counts of a background array
MaxConfigViews == 2    \* views in one background_config
SmallCap == 2          \* a max_concurrent_generations that a batch can exceed

MaxBatches == 2        \* upscale_with_fallback calls in progress on one instance
MaxImages == 2         \* images in one images_dict
MaxUpWorkers == 2      \* ConcurrentUpscaler(max_workers=...) is in 1..MaxUpWorkers

MaxRequests == 2       \* requests in progress on one ParallelWorkflowManager
MaxViews == 3          \* views of the end-to-end request
MaxKinds == 3          \* background kinds of the end-to-end request, one image each
MaxFailedJobs == 2     \* its generation jobs that fail, when not all of them fail
MaxFallbacks == 2      \* its images whose upscale fails
MaxUtilCalls == 2       \* calls of the utility functions of the upscaler
MaxOtherSteps == 3     \* steps the other coroutine of the event loop has to run
MaxCapJobs == 2        \* generation jobs of each of the concurrent requests
MaxBackoffJobs == 2    \* jobs of the batch whose retry loops are timed
TicksPerSecond == 2    \* resolution of the modelled loop clock
MaxLoopTime == 14      \* the loop clock stops at this tick

(* priority penalty of a retry: queue.put((task.priority + 10, ...)) *)
PriorityPenalty == 10

T == 1..MaxTasks                       \* Task objects, in creation order
TaskIds == 1..MaxTasks                 \* task_id values
WorkerIds == 1..MaxWorkerObjs
NoTask == 0

VARIABLES
  max_workers,    \* self.max_workers
  max_queue_size, \* self.max_queue_size
  is_running,     \* self.is_running
  queue,          \* self.queue._queue: the heap array of (priority, time, task)
  workers,        \* self.workers: the worker coroutines start() created
  wpc,            \* where each worker coroutine is suspended
  wtask,          \* the `task` local of _process_task, per worker
  wres,           \* the `result` local of _process_task, per worker
  wcancel,        \* workers on which cancel() was called and not yet delivered
  stops,          \* stop() calls suspended in gather: the workers each awaits
  nWorkers,       \* number of worker coroutines created so far
  results,        \* self.results: task_id -> TaskResult (by the creating task)
  recs,           \* the TaskResult objects, one per add_task call that made one
  running_tasks,  \* self.running_tasks: task_id -> Task
  semaphore,      \* self.semaphore._value
  tasks,          \* the Task objects
  nTasks,         \* number of Task objects created so far
  putters,        \* add_task calls suspended in queue.put (queue full)
  threads,        \* sync runnables still executing in the thread pool after
                  \* the worker awaiting them was cancelled
  lastTs,         \* the latest value time.time() returned
  nTies,          \* number of times time.time() repeated its previous value
  nReuse,         \* number of add_task calls that reused a task_id
  nEnq,           \* history: number of entries ever put into the heap
  execs,          \* history: how often each task's runnable was started
  timedOut        \* history: task_ids on which a wait_for_result call timed out

tqvars == <<max_workers, max_queue_size, is_running, queue, workers, wpc, wtask, wres, wcancel, stops,
            nWorkers, results, recs, running_tasks, semaphore, tasks, nTasks,
            putters, threads, lastTs, nTies, nReuse, nEnq, execs, timedOut>>

VARIABLES
  max_concurrent_generations, \* self.max_concurrent_generations
  gen_mode,       \* which entry point was called: "standard" or "background"
  gen_pc,         \* the batch call: "idle", "running", "returned", "raised"
  reference_image_paths_dict, \* the views that have a reference image
  number_of_outputs,          \* argument of generate_images_concurrent
  background_config,          \* view -> [white, plain, random], in dict order
  gen_tasks,      \* the `tasks` list of ImageGenerationTask, in build order
  gen_semaphore,  \* the batch's asyncio.Semaphore._value
  jpc,            \* where each limited_generation coroutine is suspended
  attempt,        \* the `attempt` loop variable of each job
  jresult,        \* what each job returned to gather (0 is None)
  last_fail,      \* history: how the last attempt of a job that gave up failed
  all_variations, \* the result dict, as its ordered list of (key, value)
  primary_image,  \* the primary image returned (0 is None)
  gen_error,      \* the ValueError the batch call raised
  first_done      \* history: the job of the batch that ended first (0: none yet)

genvars == <<max_concurrent_generations, gen_mode, gen_pc, reference_image_paths_dict,
             number_of_outputs, background_config, gen_tasks, gen_semaphore, jpc,
             attempt, jresult, last_fail, all_variations, primary_image, gen_error,
             first_done>>

VARIABLES
  up_max_workers, \* ConcurrentUpscaler.max_workers, the size of self.executor
  executor_shutdown, \* self.executor._shutdown
  work_queue,     \* self.executor._work_queue: work items no thread has taken
  up_pc,          \* each upscale_with_fallback call: "idle", "running", "returned"
  images_dict,    \* argument of each call, as the ordered list of its keys
  up_semaphore,   \* the asyncio.Semaphore._value of each call
  upc,            \* where each limited_upscale coroutine of a call stands
  up_attempt,     \* the `attempt` loop variable of _upscale_with_retry
  up_result,      \* what _upscale_with_retry / limited_upscale returned ("none" is None)
  up_fail,        \* history: how each job that got no upscaled bytes failed
  upscaled_images \* the first dict each call returned, as ordered (key, value) list

upvars == <<up_max_workers, executor_shutdown, work_queue, up_pc, images_dict,
            up_semaphore, upc, up_attempt, up_result, up_fail, upscaled_images>>

VARIABLES
  flow_pc,        \* where each process_request_*_parallel call is suspended
  job_keys,       \* the keys of the generation jobs the request's arguments give
  upscale,        \* the `upscale` argument of each request
  isVideo,        \* the `isVideo` argument of each request
  original_variations_bytes_dict, \* the copy of the generated map (key -> bytes)
  all_variations_bytes_dict,      \* the generated map, rebound to the upscaled one
  upscale_task,   \* the asyncio.Task of _create_upscaling_task
  video_task,     \* the asyncio.Task of _create_video_generation_task
  parallel_results, \* what _execute_parallel_tasks returned: name -> result
  persisted,      \* what the save_* helpers have written for the request
  response,       \* the dict returned to the caller
  started,        \* history: the collaborators called for the request
  gen_succeeded,  \* history: the generation jobs of the request that succeeded
  failed_in       \* history: the step in which an exception reached the outer except

flowvars == <<flow_pc, job_keys, upscale, isVideo, original_variations_bytes_dict,
              all_variations_bytes_dict, upscale_task, video_task, parallel_results,
              persisted, response, started, gen_succeeded, failed_in>>

VARIABLES
  loop_time,      \* asyncio.get_event_loop().time(), in clock ticks
  bo_pc,          \* where each retry loop stands: "call", "sleep", "done"
  bo_attempt,     \* its `attempt` loop variable
  delay,          \* the `delay` it last computed, in clock ticks (0: none yet)
  wake,           \* the loop time at which its asyncio.sleep(delay) is due
  failed_at       \* history: the loop time at which its last attempt failed

bovars == <<loop_time, bo_pc, bo_attempt, delay, wake, failed_at>>

VARIABLES
  cap_pc,         \* the generate_images_*_concurrent call of each request
  cap_tasks,      \* len(tasks) of that call
  cap_semaphore,  \* the asyncio.Semaphore._value that call created
  cap_jpc         \* where each limited_generation coroutine of the call stands

capvars == <<cap_pc, cap_tasks, cap_semaphore, cap_jpc>>

VARIABLES
  cu_entry,       \* the entry point of the upscaler a coroutine has called
  cu_pc,          \* where that coroutine stands on the event loop
  future,         \* the work of each image in the thread pool of the upscaler
  other_steps,    \* steps another coroutine of the same event loop has run
  concurrent_images \* the keys of the dict the entry point fills, in dict order

loopvars == <<cu_entry, cu_pc, future, other_steps, concurrent_images>>

VARIABLES
  util_pc,        \* each call of a utility function: where it stands
  util_fn,        \* which utility function the call is of
  pool,           \* the ThreadPoolExecutor of the upscaler the call created
  pool_threads    \* the worker threads of that executor that are alive

utilvars == <<util_pc, util_fn, pool, pool_threads>>

VARIABLES
  api_pc,         \* each POST /generate/image: its handler and background task
  generation_results, \* the module's registry: request_id -> status
  poll_answer,    \* what the last GET /generate/image for the id answered
  cleanup_raised  \* history: the removal of the request's temporary files raised

apivars == <<api_pc, generation_results, poll_answer, cleanup_raised>>

corevars == <<tqvars, genvars, upvars, flowvars>>
extvars == <<bovars, capvars, loopvars, utilvars, apivars>>
notbo == <<capvars, loopvars, utilvars, apivars>>
notcap == <<bovars, loopvars, utilvars, apivars>>
notloop == <<bovars, capvars, utilvars, apivars>>
notutil == <<bovars, capvars, loopvars, apivars>>
notapi == <<bovars, capvars, loopvars, utilvars>>
vars == <<corevars, extvars>>

(* ------------------------- heapq on the heap array ---------------------- *)
(* Tuple comparison of two queue entries (priority, time, task): the first  *)
(* differing component decides; when priority and time are both equal the   *)
(* Task objects are compared, and Task defines no ordering: TypeError.      *)
EntryLess(a, b) ==
  IF a.pri # b.pri THEN (IF a.pri < b.pri THEN "lt" ELSE "ge")
  ELSE IF a.ts # b.ts THEN (IF a.ts < b.ts THEN "lt" ELSE "ge")
  ELSE IF a.task = b.task THEN "ge"
  ELSE "err"

Swap(h, i, j) == [h EXCEPT ![i] = h[j], ![j] = h[i]]

(* _heapq siftdown(heap, startpos, pos), positions 0-based as in C *)
RECURSIVE SiftDown(_, _, _)
SiftDown(h, startpos, pos) ==
  IF pos > startpos
  THEN LET parentpos == (pos - 1) \div 2
           c == EntryLess(h[pos + 1], h[parentpos + 1])
       IN  IF c = "err" THEN [heap |-> h, err |-> TRUE]
           ELSE IF c = "lt"
                THEN SiftDown(Swap(h, pos + 1, parentpos + 1), startpos, parentpos)
                ELSE [heap |-> h, err |-> FALSE]
  ELSE [heap |-> h, err |-> FALSE]

(* _heapq siftup(heap, pos): move the smaller child up to a leaf, then      *)
(* sift the displaced item down from there                                  *)
RECURSIVE SiftUpFrom(_, _, _)
SiftUpFrom(h, startpos, pos) ==
  LET endpos == Len(h)
      limit == endpos \div 2
  IN  IF pos < limit
      THEN LET childpos == 2 * pos + 1
               c == IF childpos + 1 < endpos
                    THEN EntryLess(h[childpos + 1], h[childpos + 2])
                    ELSE "lt"
               pick == IF c = "lt" THEN childpos ELSE childpos + 1
           IN  IF c = "err" THEN [heap |-> h, err |-> TRUE]
               ELSE SiftUpFrom(Swap(h, pick + 1, pos + 1), startpos, pick)
      ELSE SiftDown(h, startpos, pos)

(* heapq.heappush: append, then siftdown(heap, 0, len-1). On TypeError the  *)
(* item stays in the list where the sift stopped.                           *)
HeapPush(h, e) == SiftDown(Append(h, e), 0, Len(h))

(* heapq.heappop: the last item replaces the root and is sifted. On         *)
(* TypeError the root that was to be returned is dropped.                   *)
HeapPop(h) ==
  LET n == Len(h)
      rest == SubSeq(h, 1, n - 1)
  IN  IF n = 1
      THEN [item |-> h[1], heap |-> <<>>, err |-> FALSE]
      ELSE LET r == SiftUpFrom([rest EXCEPT ![1] = h[n]], 0, 0)
           IN  [item |-> h[1], heap |-> r.heap, err |-> r.err]

(* asyncio.Queue.full() *)
QueueFull == Len(queue) >= max_queue_size

(* ------------------------------ records --------------------------------- *)
NullTask == [task_id |-> 0, priority |-> 0, max_retries |-> 0, retry_count |-> 0]
NullRec == [status |-> "none", result |-> 0, error |-> 0, started |-> FALSE]
PendingRec == [status |-> "pending", result |-> 0, error |-> 0, started |-> FALSE]

Terminal == {"completed", "failed", "cancelled"}

(* TaskQueue.__init__(max_workers, max_queue_size), lines 57-67 *)
TQInit ==
  /\ max_workers \in 1..MaxWorkers
  /\ max_queue_size \in 1..MaxQueueSize
  /\ is_running = FALSE
  /\ queue = <<>>
  /\ workers = {}
  /\ wpc = [w \in WorkerIds |-> "none"]
  /\ wtask = [w \in WorkerIds |-> NoTask]
  /\ wres = [w \in WorkerIds |-> NoTask]
  /\ wcancel = {}
  /\ stops = {}
  /\ nWorkers = 0
  /\ results = [i \in TaskIds |-> NoTask]
  /\ recs = [t \in T |-> NullRec]
  /\ running_tasks = [i \in TaskIds |-> NoTask]
  /\ semaphore = max_workers
  /\ tasks = [t \in T |-> NullTask]
  /\ nTasks = 0
  /\ putters = {}
  /\ threads = {}
  /\ lastTs = 0
  /\ nTies = 0
  /\ nReuse = 0
  /\ nEnq = 0
  /\ execs = [t \in T |-> 0]
  /\ timedOut = {}

(* ------------------------------ add_task -------------------------------- *)
Entry(pri, ts, t) == [pri |-> pri, ts |-> ts, task |-> t, seq |-> nEnq + 1]

(* time.time(): not strictly increasing; two calls may return the same value *)
Clock == {lastTs + 1} \cup (IF nTies < MaxClockTies /\ nEnq > 0 THEN {lastTs} ELSE {})

clockvars == <<lastTs, nTies, nEnq>>
lifevars == <<max_workers, max_queue_size, is_running, workers, stops, nWorkers>>
waitvars == <<timedOut>>

(* the heap after queue.put_nowait((pri, time.time(), t)) *)
Put(pri, ts, t) ==
  /\ queue' = HeapPush(queue, Entry(pri, ts, t)).heap
  /\ lastTs' = ts
  /\ nEnq' = nEnq + 1
  /\ nTies' = IF ts = lastTs THEN nTies + 1 ELSE nTies

(* whether that put raises TypeError out of the heap *)
PutRaises(pri, ts, t) == HeapPush(queue, Entry(pri, ts, t)).err

(* lines 139-148: queue.put_nowait, then self.results[task_id] = TaskResult  *)
(* (PENDING). A TypeError leaves add_task before the result record is made.  *)
AddPut(t, id, pri) ==
  \E ts \in Clock :
    /\ Put(pri, ts, t)
    /\ IF PutRaises(pri, ts, t)
       THEN UNCHANGED <<results, recs>>
       ELSE /\ results' = [results EXCEPT ![id] = t]
            /\ recs' = [recs EXCEPT ![t] = PendingRec]

(* the task_id values given to add_task so far *)
UsedIds == {tasks[u].task_id : u \in 1..nTasks}

(* add_task(func, priority, task_id, max_retries): `await self.queue.put`    *)
(* suspends the caller while the queue is full                               *)
AddTask(pri, mr, id) ==
  /\ nTasks < MaxTasks
  /\ id \in UsedIds => nReuse < MaxIdReuse
  /\ nReuse' = IF id \in UsedIds THEN nReuse + 1 ELSE nReuse
  /\ nTasks' = nTasks + 1
  /\ tasks' = [tasks EXCEPT ![nTasks + 1] =
                 [task_id |-> id, priority |-> pri, max_retries |-> mr,
                  retry_count |-> 0]]
  /\ IF QueueFull
     THEN /\ putters' = putters \cup {nTasks + 1}
          /\ UNCHANGED <<queue, clockvars, results, recs>>
     ELSE /\ AddPut(nTasks + 1, id, pri)
          /\ UNCHANGED putters
  /\ UNCHANGED <<genvars, upvars, flowvars, extvars, waitvars, lifevars, wpc, wtask, wres, wcancel, running_tasks, semaphore,
                 threads, execs>>

(* an add_task call suspended in queue.put goes on once a slot is free *)
AddTaskResume(t) ==
  /\ t \in putters
  /\ ~QueueFull
  /\ putters' = putters \ {t}
  /\ AddPut(t, tasks[t].task_id, tasks[t].priority)
  /\ UNCHANGED <<genvars, upvars, flowvars, extvars, waitvars, lifevars, wpc, wtask, wres, wcancel, running_tasks, semaphore,
                 tasks, nTasks, nReuse, threads, execs>>

(* ------------------------------- _worker -------------------------------- *)
(* `while self.is_running:` as evaluated when the loop body has ended *)
LoopPc == IF is_running THEN "get" ELSE "done"

(* finally: self.running_tasks.pop(task_id, None); back to the worker loop *)
FinishProcess(w) ==
  /\ running_tasks' = [running_tasks EXCEPT ![tasks[wtask[w]].task_id] = NoTask]
  /\ wpc' = [wpc EXCEPT ![w] = LoopPc]
  /\ wtask' = [wtask EXCEPT ![w] = NoTask]
  /\ wres' = [wres EXCEPT ![w] = NoTask]

(* lines 192-226: queue.get() returns an entry; _process_task registers the  *)
(* task, marks its record RUNNING and enters `async with self.semaphore`     *)
WorkerDequeue(w) ==
  /\ wpc[w] = "get"
  /\ w \notin wcancel
  /\ Len(queue) > 0
  /\ LET r == HeapPop(queue)
         t == r.item.task
         id == tasks[t].task_id
         rec == results[id]
     IN  /\ queue' = r.heap
         /\ IF r.err
            THEN \* TypeError out of queue.get(): `except Exception` of the loop
                 /\ wpc' = [wpc EXCEPT ![w] = LoopPc]
                 /\ UNCHANGED <<wtask, wres, running_tasks, recs, semaphore, execs>>
            ELSE IF rec = NoTask
            THEN \* KeyError at self.results[task_id], outside the try block
                 /\ running_tasks' = [running_tasks EXCEPT ![id] = t]
                 /\ wpc' = [wpc EXCEPT ![w] = LoopPc]
                 /\ UNCHANGED <<wtask, wres, recs, semaphore, execs>>
            ELSE /\ running_tasks' = [running_tasks EXCEPT ![id] = t]
                 /\ recs' = [recs EXCEPT ![rec].status = "running",
                                         ![rec].started = TRUE]
                 /\ wtask' = [wtask EXCEPT ![w] = t]
                 /\ wres' = [wres EXCEPT ![w] = rec]
                 /\ IF semaphore > 0
                    THEN /\ semaphore' = semaphore - 1
                         /\ wpc' = [wpc EXCEPT ![w] = "exec"]
                         /\ execs' = [execs EXCEPT ![t] = @ + 1]
                    ELSE /\ wpc' = [wpc EXCEPT ![w] = "acquire"]
                         /\ UNCHANGED <<semaphore, execs>>
  /\ UNCHANGED <<genvars, upvars, flowvars, extvars, waitvars, lifevars, wcancel, results, tasks, nTasks, nReuse, putters,
                 threads, clockvars>>

(* a worker suspended in semaphore.acquire() gets a permit *)
WorkerAcquire(w) ==
  /\ wpc[w] = "acquire"
  /\ w \notin wcancel
  /\ semaphore > 0
  /\ semaphore' = semaphore - 1
  /\ wpc' = [wpc EXCEPT ![w] = "exec"]
  /\ execs' = [execs EXCEPT ![wtask[w]] = @ + 1]
  /\ UNCHANGED <<genvars, upvars, flowvars, extvars, waitvars, lifevars, queue, wtask, wres, wcancel, results, recs,
                 running_tasks, tasks, nTasks, nReuse, putters, threads, clockvars>>

(* a retry test that gives up one attempt early *)
RetryAllowedStrict(retry_count, max_retries) == retry_count < max_retries

(* line 243: if task.retry_count <= task.max_retries *)
RetryAllowed(retry_count, max_retries) == retry_count <= max_retries

(* lines 247-251: re-enqueue at task.priority + 10, then status PENDING.     *)
(* A TypeError out of the heap leaves the handler before the status reset.   *)
Reput(w, rb) ==
  \E ts \in Clock :
    LET t == wtask[w]
        pri == tasks[t].priority + PriorityPenalty
    IN  /\ Put(pri, ts, t)
        /\ recs' = IF PutRaises(pri, ts, t) THEN rb
                   ELSE [rb EXCEPT ![wres[w]].status = "pending",
                                   ![wres[w]].started = FALSE]
        /\ FinishProcess(w)

(* lines 238-260: the `except Exception` handler of _process_task, entered   *)
(* with the records as rb                                                    *)
HandleFailure(w, rb) ==
  LET t == wtask[w]
      rc == tasks[t].retry_count + 1
  IN  /\ tasks' = [tasks EXCEPT ![t].retry_count = rc]
      /\ IF RetryAllowed(rc, tasks[t].max_retries)
         THEN IF QueueFull
              THEN \* suspended in `await self.queue.put(...)`
                   /\ wpc' = [wpc EXCEPT ![w] = "reput"]
                   /\ recs' = rb
                   /\ UNCHANGED <<queue, clockvars, running_tasks, wtask, wres>>
              ELSE Reput(w, rb)
         ELSE /\ recs' = [rb EXCEPT ![wres[w]].status = "failed",
                                    ![wres[w]].error = t]
              /\ FinishProcess(w)
              /\ UNCHANGED <<queue, clockvars>>

(* lines 225-236: the runnable returns. result.execution_time is None when   *)
(* start_time was reset meanwhile; formatting it raises inside the try.      *)
ExecReturn(w) ==
  /\ wpc[w] = "exec"
  /\ w \notin wcancel
  /\ semaphore' = semaphore + 1
  /\ LET rb == [recs EXCEPT ![wres[w]].result = wtask[w],
                            ![wres[w]].status = "completed"]
     IN  IF recs[wres[w]].started
         THEN /\ recs' = rb
              /\ FinishProcess(w)
              /\ UNCHANGED <<queue, clockvars, tasks>>
         ELSE HandleFailure(w, rb)
  /\ UNCHANGED <<genvars, upvars, flowvars, extvars, waitvars, lifevars, wcancel, results, nTasks, nReuse, putters, threads,
                 execs>>

(* lines 225-230, 238: the runnable raises an Exception *)
ExecRaise(w) ==
  /\ wpc[w] = "exec"
  /\ w \notin wcancel
  /\ semaphore' = semaphore + 1
  /\ HandleFailure(w, recs)
  /\ UNCHANGED <<genvars, upvars, flowvars, extvars, waitvars, lifevars, wcancel, results, nTasks, nReuse, putters, threads,
                 execs>>

(* a worker suspended in the retry's queue.put goes on once a slot is free *)
WorkerReput(w) ==
  /\ wpc[w] = "reput"
  /\ w \notin wcancel
  /\ ~QueueFull
  /\ Reput(w, recs)
  /\ UNCHANGED <<genvars, upvars, flowvars, extvars, waitvars, lifevars, wcancel, results, semaphore, tasks, nTasks, nReuse,
                 putters, threads, execs>>

(* lines 189, 200-202: queue.get() times out on an empty queue and the loop  *)
(* test finds is_running false                                               *)
WorkerExit(w) ==
  /\ wpc[w] = "get"
  /\ w \notin wcancel
  /\ Len(queue) = 0
  /\ ~is_running
  /\ wpc' = [wpc EXCEPT ![w] = "done"]
  /\ UNCHANGED <<genvars, upvars, flowvars, extvars, waitvars, lifevars, queue, wtask, wres, wcancel, results, recs,
                 running_tasks, semaphore, tasks, nTasks, nReuse, putters, threads,
                 clockvars, execs>>

(* CancelledError is delivered to a worker at its suspension point. It is a  *)
(* BaseException: `except Exception` (238) does not catch it, `finally`      *)
(* (258-260) runs, `async with` gives the permit back, the loop breaks (203).*)
(* A sync runnable (line 230, asyncio.to_thread) is not interrupted: its     *)
(* thread runs on. Whether task.func is a coroutine function is decided      *)
(* here, the one place where it makes a difference.                          *)
WorkerCancelled(w) ==
  /\ w \in wcancel
  /\ wcancel' = wcancel \ {w}
  /\ wpc' = [wpc EXCEPT ![w] = "done"]
  /\ wtask' = [wtask EXCEPT ![w] = NoTask]
  /\ wres' = [wres EXCEPT ![w] = NoTask]
  /\ running_tasks' = IF wpc[w] \in {"acquire", "exec", "reput"}
                      THEN [running_tasks EXCEPT ![tasks[wtask[w]].task_id] = NoTask]
                      ELSE running_tasks
  /\ semaphore' = IF wpc[w] = "exec" THEN semaphore + 1 ELSE semaphore
  /\ IF wpc[w] = "exec"
     THEN threads' \in {threads, threads \cup {wtask[w]}}
     ELSE threads' = threads
  /\ UNCHANGED <<genvars, upvars, flowvars, extvars, waitvars, lifevars, queue, results, recs, tasks, nTasks, nReuse, putters,
                 clockvars, execs>>

(* the thread of an abandoned sync runnable ends; its result is dropped *)
ThreadFinish(t) ==
  /\ t \in threads
  /\ threads' = threads \ {t}
  /\ UNCHANGED <<genvars, upvars, flowvars, extvars, waitvars, lifevars, queue, wpc, wtask, wres, wcancel, results, recs,
                 running_tasks, semaphore, tasks, nTasks, nReuse, putters,
                 clockvars, execs>>

(* ---------------------------- start / stop ------------------------------ *)
NewWorkers == (nWorkers + 1)..(nWorkers + max_workers)

(* lines 71-83; each new worker runs to its first queue.get() *)
Start ==
  /\ ~is_running
  /\ nWorkers + max_workers <= MaxWorkerObjs
  /\ is_running' = TRUE
  /\ nWorkers' = nWorkers + max_workers
  /\ workers' = workers \cup NewWorkers
  /\ wpc' = [w \in WorkerIds |-> IF w \in NewWorkers THEN "get" ELSE wpc[w]]
  /\ UNCHANGED <<genvars, upvars, flowvars, extvars, waitvars, max_workers, max_queue_size, queue, stops, wtask, wres, wcancel,
                 results, recs, running_tasks, semaphore, tasks, nTasks, nReuse, putters, threads, clockvars,
                 execs>>

(* lines 85-97: is_running = False, cancel() every worker, await gather *)
StopBegin ==
  /\ is_running
  /\ is_running' = FALSE
  /\ wcancel' = wcancel \cup {w \in workers : wpc[w] # "done"}
  /\ IF workers = {}
     THEN UNCHANGED stops
     ELSE stops' = stops \cup {workers}
  /\ UNCHANGED <<genvars, upvars, flowvars, extvars, waitvars, max_workers, max_queue_size, queue, workers, nWorkers, wpc, wtask, wres, results, recs,
                 running_tasks, semaphore, tasks, nTasks, nReuse, putters, threads,
                 clockvars, execs>>

(* lines 97-100: gather has every awaited worker done; self.workers.clear() *)
StopEnd(S) ==
  /\ S \in stops
  /\ \A w \in S : wpc[w] = "done"
  /\ stops' = stops \ {S}
  /\ workers' = {}
  /\ UNCHANGED <<genvars, upvars, flowvars, extvars, waitvars, max_workers, max_queue_size, is_running, nWorkers, queue, wpc, wtask, wres, wcancel, results,
                 recs, running_tasks, semaphore, tasks, nTasks, nReuse, putters,
                 threads, clockvars, execs>>

(* --------------------------- wait_for_result ---------------------------- *)
(* line 164: the poll that makes wait_for_result return the record *)
WaitReturns(id) == results[id] # NoTask /\ recs[results[id]].status \in Terminal

(* a wait that, on its timeout, also gives the task up as failed *)
WaitTimeoutCancels(id) ==
  /\ ~WaitReturns(id)
  /\ Cardinality(timedOut) < MaxWaitTimeouts
  /\ timedOut' = timedOut \cup {id}
  /\ recs' = IF results[id] = NoTask THEN recs
             ELSE [recs EXCEPT ![results[id]].status = "failed"]
  /\ UNCHANGED <<genvars, upvars, flowvars, extvars, lifevars, queue, wpc, wtask, wres, wcancel, results,
                 running_tasks, semaphore, tasks, nTasks, nReuse, putters, threads,
                 clockvars, execs>>

(* lines 160-170 with a timeout > 0: the call polls self.results every 0.1 s  *)
(* and only reads; the poll after the deadline finds no terminal status and   *)
(* raises TimeoutError                                                        *)
WaitTimeout(id) ==
  /\ ~WaitReturns(id)
  /\ Cardinality(timedOut) < MaxWaitTimeouts
  /\ timedOut' = timedOut \cup {id}
  /\ UNCHANGED <<genvars, upvars, flowvars, extvars, lifevars, queue, wpc, wtask, wres, wcancel, results, recs,
                 running_tasks, semaphore, tasks, nTasks, nReuse, putters, threads,
                 clockvars, execs>>

(* ===================== ConcurrentImageGenerator ========================= *)
(* self.max_concurrent_generations = 10 *)
DefaultMaxConcurrentGenerations == 10

(* _generate_single_image_concurrent: max_retries = 3, the number of attempts *)
GenMaxRetries == 3

(* a smaller cap stands for batches that exceed the cap *)
GenCaps == {SmallCap, DefaultMaxConcurrentGenerations}

(* the view names given as inputs *)
InputViews == {"frontside", "sideview", "detailview"}

J == 1..MaxJobs
NoImage == 0

Min(a, b) == IF a < b THEN a ELSE b

(* generate_images_concurrent: views_to_generate and occasions *)
ViewsToGenerate == <<"frontside", "backside", "sideview">>
Occasions == <<"social_gathering", "formal_event", "casual_outing",
               "party_venue", "outdoor_setting", "studio_portrait">>

(* len(occasions) of generate_images_with_background_array_concurrent *)
BgOccasionCount == 15

ImageGenerationTask(id, view, bg) ==
  [task_id |-> id, view_name |-> view, background_type |-> bg]

(* lines 144-165: one "<view>_plain" task per primary view with a reference *)
RECURSIVE PlainTasks(_, _)
PlainTasks(refs, i) ==
  IF i > Len(ViewsToGenerate) THEN <<>>
  ELSE LET view == ViewsToGenerate[i]
       IN  (IF view \in refs
            THEN <<ImageGenerationTask(view \o "_plain", view, "plain")>>
            ELSE <<>>) \o PlainTasks(refs, i + 1)

(* lines 168-195: lifestyle tasks, only when frontside has a reference *)
LifestyleTasks(refs, n) ==
  IF "frontside" \in refs
  THEN [i \in 1..Min(n, Len(Occasions)) |->
          ImageGenerationTask("frontside_" \o Occasions[i], "frontside", Occasions[i])]
  ELSE <<>>

StandardTasks(refs, n) == PlainTasks(refs, 1) \o LifestyleTasks(refs, n)

(* lines 279-349: the tasks of one view of the background configuration *)
KindTasks(view, kind, count) ==
  [i \in 1..count |->
     ImageGenerationTask(view \o "_" \o kind \o "_" \o ToString(i), view,
                         kind \o "_" \o ToString(i))]

ViewTasks(row) ==
  KindTasks(row.view, "white", row.white)
    \o KindTasks(row.view, "plain", row.plain)
    \o KindTasks(row.view, "random", Min(row.random, BgOccasionCount))

(* lines 267-349: views without a reference image are skipped *)
RECURSIVE BackgroundTasks(_, _, _)
BackgroundTasks(config, refs, i) ==
  IF i > Len(config) THEN <<>>
  ELSE (IF config[i].view \in refs THEN ViewTasks(config[i]) ELSE <<>>)
         \o BackgroundTasks(config, refs, i + 1)

(* the index of an occasion in the occasions list, 0-based: list.index *)
OccasionIndex(name) == (CHOOSE i \in 1..Len(Occasions) : Occasions[i] = name) - 1

(* lines 224-231: the variation name of a task of generate_images_concurrent *)
VariationName(task) ==
  IF task.view_name = "frontside" /\ task.background_type # "plain"
  THEN IF task.background_type = Occasions[1]
       THEN "frontside_" \o task.background_type
       ELSE "output_" \o ToString(OccasionIndex(task.background_type) + 1)
              \o "_" \o task.background_type
  ELSE task.view_name

(* a map keyed by the view alone, whatever the background of the task *)
KeyOfView(mode, task) == task.view_name

(* the key a task's result is stored under: line 231/226/229, or line 378 *)
KeyOf(mode, task) == IF mode = "standard" THEN VariationName(task) ELSE task.task_id

(* a map that puts a new key in front of the others *)
DictSetInFront(d, k, v) ==
  IF \E i \in 1..Len(d) : d[i].key = k
  THEN [i \in 1..Len(d) |-> IF d[i].key = k THEN [key |-> k, value |-> v] ELSE d[i]]
  ELSE <<[key |-> k, value |-> v]>> \o d

(* dict item assignment: a present key keeps its place and gets the value *)
DictSet(d, k, v) ==
  IF \E i \in 1..Len(d) : d[i].key = k
  THEN [i \in 1..Len(d) |-> IF d[i].key = k THEN [key |-> k, value |-> v] ELSE d[i]]
  ELSE Append(d, [key |-> k, value |-> v])

(* lines 217-234 / 372-381: zip(tasks, results) in list order; a falsy       *)
(* result adds nothing                                                       *)
RECURSIVE ProcessResults(_, _, _, _, _)
ProcessResults(mode, tsks, res, i, d) ==
  IF i > Len(tsks) THEN d
  ELSE ProcessResults(mode, tsks, res, i + 1,
         IF res[i] # NoImage THEN DictSet(d, KeyOf(mode, tsks[i]), res[i]) ELSE d)

DictGet(d, k) ==
  IF \E i \in 1..Len(d) : d[i].key = k
  THEN d[CHOOSE i \in 1..Len(d) : d[i].key = k].value
  ELSE NoImage

(* str.startswith("frontside") *)
StartsWithFrontside(k) == Len(k) >= Len("frontside") /\ SubSeq(k, 1, Len("frontside")) = "frontside"

FirstValue(d) == IF Len(d) > 0 THEN d[1].value ELSE NoImage

(* line 242: all_variations.get("frontside") or next(iter(values), None) *)
StandardPrimary(d) ==
  IF DictGet(d, "frontside") # NoImage THEN DictGet(d, "frontside") ELSE FirstValue(d)

(* lines 389-396: the first key that starts with "frontside", else the first *)
BackgroundPrimary(d) ==
  LET hits == {i \in 1..Len(d) : StartsWithFrontside(d[i].key)}
  IN  IF hits # {}
      THEN d[CHOOSE i \in hits : \A j \in hits : i <= j].value
      ELSE FirstValue(d)

(* ConcurrentImageGenerator.__init__; no batch call made yet *)
GenInit ==
  /\ max_concurrent_generations \in GenCaps
  /\ gen_mode = "none"
  /\ gen_pc = "idle"
  /\ reference_image_paths_dict = {}
  /\ number_of_outputs = 0
  /\ background_config = <<>>
  /\ gen_tasks = <<>>
  /\ gen_semaphore = 0
  /\ jpc = [j \in J |-> "none"]
  /\ attempt = [j \in J |-> 0]
  /\ jresult = [j \in J |-> NoImage]
  /\ last_fail = [j \in J |-> "none"]
  /\ all_variations = <<>>
  /\ primary_image = NoImage
  /\ gen_error = "none"
  /\ first_done = 0

(* the background configurations given as inputs: dict keys are distinct *)
BgViews == {"frontside", "sideview"}
Rows == [view : BgViews, white : 0..MaxCount, plain : 0..MaxCount, random : 0..MaxCount]
Configs ==
  {c \in UNION {[1..k -> Rows] : k \in 0..MaxConfigViews} :
     \A a, b \in 1..Len(c) : a # b => c[a].view # c[b].view}

(* a ValueError raised before any job is created *)
RaiseEarly(mode, refs, n, config, error) ==
  /\ gen_mode' = mode
  /\ reference_image_paths_dict' = refs
  /\ number_of_outputs' = n
  /\ background_config' = config
  /\ gen_pc' = "raised"
  /\ gen_error' = error
  /\ UNCHANGED <<max_concurrent_generations, gen_tasks, gen_semaphore, jpc, attempt,
                 jresult, last_fail, all_variations, primary_image, first_done>>

(* lines 201-212 / 357-367: Semaphore(min(max_concurrent_generations, N)),   *)
(* then gather starts the limited_generation coroutines in list order: the   *)
(* first ones take the permits and make their first call, the others wait    *)
RunBatch(mode, refs, n, config, tsks) ==
  LET permits == Min(max_concurrent_generations, Len(tsks))
  IN  /\ gen_mode' = mode
      /\ reference_image_paths_dict' = refs
      /\ number_of_outputs' = n
      /\ background_config' = config
      /\ gen_tasks' = tsks
      /\ gen_pc' = "running"
      /\ gen_semaphore' = 0
      /\ jpc' = [j \in J |-> IF j > Len(tsks) THEN "none"
                             ELSE IF j <= permits THEN "call" ELSE "acquire"]
      /\ UNCHANGED <<max_concurrent_generations, attempt, jresult, last_fail,
                     all_variations, primary_image, gen_error, first_done>>

(* generate_images_concurrent(product_data, reference_image_paths_dict,      *)
(* number_of_outputs), lines 120-212                                         *)
GenerateImagesConcurrent(refs, n) ==
  /\ gen_pc = "idle"
  /\ Len(StandardTasks(refs, n)) <= MaxJobs
  /\ IF refs = {}
     THEN RaiseEarly("standard", refs, n, <<>>, "no_reference")
     ELSE RunBatch("standard", refs, n, <<>>, StandardTasks(refs, n))
  /\ UNCHANGED <<tqvars, upvars, flowvars, extvars>>

(* generate_images_with_background_array_concurrent(product_data,            *)
(* reference_image_paths_dict, background_config), lines 246-367             *)
GenerateImagesWithBackgroundArrayConcurrent(refs, config) ==
  /\ gen_pc = "idle"
  /\ Len(BackgroundTasks(config, refs, 1)) <= MaxJobs
  /\ IF refs = {}
     THEN RaiseEarly("background", refs, 0, config, "no_reference")
     ELSE IF BackgroundTasks(config, refs, 1) = <<>>
     THEN RaiseEarly("background", refs, 0, config, "no_tasks")
     ELSE RunBatch("background", refs, 0, config, BackgroundTasks(config, refs, 1))
  /\ UNCHANGED <<tqvars, upvars, flowvars, extvars>>

Jobs == 1..Len(gen_tasks)

(* a waiting job that goes on without a free permit *)
JobAcquireUnguarded(j) ==
  /\ j \in Jobs
  /\ jpc[j] = "acquire"
  /\ \A i \in Jobs : jpc[i] = "acquire" => j <= i
  /\ gen_semaphore' = gen_semaphore - 1
  /\ jpc' = [jpc EXCEPT ![j] = "call"]
  /\ UNCHANGED <<tqvars, upvars, flowvars, extvars, max_concurrent_generations, gen_mode, gen_pc,
                 reference_image_paths_dict, number_of_outputs, background_config,
                 gen_tasks, attempt, jresult, last_fail, all_variations,
                 primary_image, gen_error, first_done>>

(* `async with semaphore` of a waiting job: the semaphore wakes its waiters  *)
(* in the order they arrived, which is the list order                        *)
JobAcquire(j) ==
  /\ j \in Jobs
  /\ jpc[j] = "acquire"
  /\ gen_semaphore > 0
  /\ \A i \in Jobs : jpc[i] = "acquire" => j <= i
  /\ gen_semaphore' = gen_semaphore - 1
  /\ jpc' = [jpc EXCEPT ![j] = "call"]
  /\ UNCHANGED <<tqvars, upvars, flowvars, extvars, max_concurrent_generations, gen_mode, gen_pc,
                 reference_image_paths_dict, number_of_outputs, background_config,
                 gen_tasks, attempt, jresult, last_fail, all_variations,
                 primary_image, gen_error, first_done>>

(* lines 101-108: the generation call returns image bytes; the job returns   *)
(* them and leaves `async with`                                              *)
AttemptReturns(j) ==
  /\ j \in Jobs
  /\ jpc[j] = "call"
  /\ jresult' = [jresult EXCEPT ![j] = j]
  /\ jpc' = [jpc EXCEPT ![j] = "done"]
  /\ gen_semaphore' = gen_semaphore + 1
  /\ first_done' = IF first_done = 0 THEN j ELSE first_done
  /\ UNCHANGED <<tqvars, upvars, flowvars, extvars, max_concurrent_generations, gen_mode, gen_pc,
                 reference_image_paths_dict, number_of_outputs, background_config,
                 gen_tasks, attempt, last_fail, all_variations, primary_image,
                 gen_error>>

(* the ways one attempt fails: except Exception (114), except TimeoutError   *)
(* (112), falsy result (109-110)                                             *)
FailureKinds == {"exception", "timeout", "empty"}

(* line 91: `for attempt in range(max_retries)` has another attempt after   *)
(* the one numbered a                                                       *)
HasNextAttemptOneMore(a) == a + 1 <= GenMaxRetries

HasNextAttempt(a) == a + 1 < GenMaxRetries

(* a failed attempt whose error escapes and cancels the rest of the batch *)
AttemptFailsCancelsSiblings(j, kind) ==
  /\ j \in Jobs
  /\ jpc[j] = "call"
  /\ jpc' = [i \in J |-> IF i \in Jobs THEN "done" ELSE jpc[i]]
  /\ jresult' = [jresult EXCEPT ![j] = NoImage]
  /\ last_fail' = [last_fail EXCEPT ![j] = kind]
  /\ gen_semaphore' = Min(max_concurrent_generations, Len(gen_tasks))
  /\ first_done' = IF first_done = 0 THEN j ELSE first_done
  /\ UNCHANGED <<tqvars, upvars, flowvars, extvars, max_concurrent_generations, gen_mode, gen_pc,
                 reference_image_paths_dict, number_of_outputs, background_config,
                 gen_tasks, attempt, all_variations, primary_image, gen_error>>

(* lines 91-118: a failed attempt; the loop goes to the next attempt, which  *)
(* sleeps first (94-96), or ends and the job returns None                    *)
AttemptFails(j, kind) ==
  /\ j \in Jobs
  /\ jpc[j] = "call"
  /\ IF HasNextAttempt(attempt[j])
     THEN /\ attempt' = [attempt EXCEPT ![j] = @ + 1]
          /\ jpc' = [jpc EXCEPT ![j] = "sleep"]
          /\ UNCHANGED <<gen_semaphore, jresult, last_fail, first_done>>
     ELSE /\ jpc' = [jpc EXCEPT ![j] = "done"]
          /\ jresult' = [jresult EXCEPT ![j] = NoImage]
          /\ last_fail' = [last_fail EXCEPT ![j] = kind]
          /\ gen_semaphore' = gen_semaphore + 1
          /\ first_done' = IF first_done = 0 THEN j ELSE first_done
          /\ UNCHANGED attempt
  /\ UNCHANGED <<tqvars, upvars, flowvars, extvars, max_concurrent_generations, gen_mode, gen_pc,
                 reference_image_paths_dict, number_of_outputs, background_config,
                 gen_tasks, all_variations, primary_image, gen_error>>

(* line 96: the backoff sleep before a retry is over *)
SleepEnds(j) ==
  /\ j \in Jobs
  /\ jpc[j] = "sleep"
  /\ jpc' = [jpc EXCEPT ![j] = "call"]
  /\ UNCHANGED <<tqvars, upvars, flowvars, extvars, max_concurrent_generations, gen_mode, gen_pc,
                 reference_image_paths_dict, number_of_outputs, background_config,
                 gen_tasks, gen_semaphore, attempt, jresult, last_fail,
                 all_variations, primary_image, gen_error, first_done>>

(* a failure rule that also rejects a batch with a single success *)
BatchFailsBelowTwo(d) == Len(d) < 2

(* line 238 / 385: if not all_variations *)
BatchFails(d) == d = <<>>

(* lines 209-244 / 364-398: gather returns once every job has returned; the  *)
(* results are collected in list order, then the batch raises or returns     *)
GatherReturns ==
  /\ gen_pc = "running"
  /\ \A j \in Jobs : jpc[j] = "done"
  /\ LET d == ProcessResults(gen_mode, gen_tasks, jresult, 1, <<>>)
     IN  /\ all_variations' = d
         /\ IF BatchFails(d)
            THEN /\ gen_pc' = "raised"
                 /\ gen_error' = "all_failed"
                 /\ UNCHANGED primary_image
            ELSE /\ gen_pc' = "returned"
                 /\ primary_image' = IF gen_mode = "standard" THEN StandardPrimary(d)
                                      ELSE BackgroundPrimary(d)
                 /\ UNCHANGED gen_error
  /\ UNCHANGED <<tqvars, upvars, flowvars, extvars, max_concurrent_generations, gen_mode,
                 reference_image_paths_dict, number_of_outputs, background_config,
                 gen_tasks, gen_semaphore, jpc, attempt, jresult, last_fail, first_done>>

(* =========================== ConcurrentUpscaler ========================= *)
(* One ConcurrentUpscaler instance and the upscale_with_fallback calls that *)
(* share it. A call builds one limited_upscale coroutine per image; each    *)
(* takes a permit of the call's own semaphore, hands _upscale_with_retry to *)
(* the instance's ThreadPoolExecutor and waits for it.                      *)
Batches == 1..MaxBatches
Slots == 1..MaxImages
ImageKeys == {"frontside", "sideview"}

(* ConcurrentUpscaler.__init__(max_workers=3) *)
DefaultUpMaxWorkers == 3
(* _upscale_with_retry(task, max_retries=2): attempts 0..max_retries *)
UpMaxRetries == 2

(* image bytes: the input bytes of a key, what the upscaler makes of them,  *)
(* and None                                                                 *)
OriginalBytes(k) == <<"original", k>>
UpscaledBytes(k) == <<"upscaled", k>>
NoBytes == <<"none", "none">>

(* the images_dict arguments: dict keys are distinct *)
ImageDicts ==
  {d \in UNION {[1..n -> ImageKeys] : n \in 0..MaxImages} :
     \A a, b \in 1..Len(d) : a # b => d[a] # d[b]}

UpJobs(b) == 1..Len(images_dict[b])

(* work items a thread of the pool is running *)
RunningThreads == {p \in Batches \X Slots : upc[p[1]][p[2]] = "exec"}

(* ConcurrentUpscaler.__init__; no call made yet *)
UpIdle ==
  /\ executor_shutdown = FALSE
  /\ work_queue = <<>>
  /\ up_pc = [b \in Batches |-> "idle"]
  /\ images_dict = [b \in Batches |-> <<>>]
  /\ up_semaphore = [b \in Batches |-> 0]
  /\ upc = [b \in Batches |-> [i \in Slots |-> "none"]]
  /\ up_attempt = [b \in Batches |-> [i \in Slots |-> 0]]
  /\ up_result = [b \in Batches |-> [i \in Slots |-> NoBytes]]
  /\ up_fail = [b \in Batches |-> [i \in Slots |-> "none"]]
  /\ upscaled_images = [b \in Batches |-> <<>>]

UpInit == UpIdle /\ up_max_workers \in 1..MaxUpWorkers

(* the result loop: a job that returned bytes gives the upscaled bytes, a   *)
(* job that returned None gives original_images[key]                        *)
ResultLoopDropsFailed(b) ==
  LET kept == SelectSeq([i \in UpJobs(b) |-> i], LAMBDA i : up_result[b][i] # NoBytes)
  IN [n \in 1..Len(kept) |-> [key |-> images_dict[b][kept[n]], value |-> up_result[b][kept[n]]]]

ResultLoop(b) ==
  [i \in UpJobs(b) |->
     [key |-> images_dict[b][i],
      value |-> IF up_result[b][i] # NoBytes
                  THEN up_result[b][i]
                  ELSE OriginalBytes(images_dict[b][i])]]

(* upscale_with_fallback(images_dict) up to its await of gather: an empty   *)
(* dict returns at once, otherwise one limited_upscale per key is created   *)
(* under a new Semaphore(self.max_workers)                                  *)
UpscaleWithFallback(b, imgs) ==
  /\ up_pc[b] = "idle"
  /\ IF imgs = <<>>
       THEN /\ up_pc' = [up_pc EXCEPT ![b] = "returned"]
            /\ UNCHANGED <<images_dict, up_semaphore, upc>>
       ELSE /\ up_pc' = [up_pc EXCEPT ![b] = "running"]
            /\ images_dict' = [images_dict EXCEPT ![b] = imgs]
            /\ up_semaphore' = [up_semaphore EXCEPT ![b] = up_max_workers]
            /\ upc' = [upc EXCEPT ![b] = [i \in Slots |-> IF i <= Len(imgs) THEN "acquire" ELSE "none"]]
  /\ UNCHANGED <<tqvars, genvars, flowvars, extvars, up_max_workers, executor_shutdown, work_queue,
                 up_attempt, up_result, up_fail, upscaled_images>>

(* limited_upscale enters `async with semaphore` (waiters are served in     *)
(* creation order) and calls run_in_executor: the work item is queued, or   *)
(* submit raises because the pool is shut down, which the except clause     *)
(* turns into (key, None) while the permit is given back                    *)
LimitedUpscale(b, i) ==
  /\ up_pc[b] = "running"
  /\ upc[b][i] = "acquire"
  /\ up_semaphore[b] > 0
  /\ \A h \in UpJobs(b) : h < i => upc[b][h] # "acquire"
  /\ IF executor_shutdown
       THEN /\ upc' = [upc EXCEPT ![b][i] = "done"]
            /\ up_fail' = [up_fail EXCEPT ![b][i] = "dispatch"]
            /\ UNCHANGED <<up_semaphore, work_queue>>
       ELSE /\ upc' = [upc EXCEPT ![b][i] = "queued"]
            /\ up_semaphore' = [up_semaphore EXCEPT ![b] = @ - 1]
            /\ work_queue' = Append(work_queue, <<b, i>>)
            /\ UNCHANGED up_fail
  /\ UNCHANGED <<tqvars, genvars, flowvars, extvars, up_max_workers, executor_shutdown, up_pc, images_dict,
                 up_attempt, up_result, upscaled_images>>

(* a thread of the pool takes the oldest work item; the pool never has more *)
(* than max_workers threads                                                 *)
ThreadStartUnbounded(b, i) ==
  /\ work_queue # <<>>
  /\ Head(work_queue) = <<b, i>>
  /\ work_queue' = Tail(work_queue)
  /\ upc' = [upc EXCEPT ![b][i] = "exec"]
  /\ UNCHANGED <<tqvars, genvars, flowvars, extvars, up_max_workers, executor_shutdown, up_pc, images_dict,
                 up_semaphore, up_attempt, up_result, up_fail, upscaled_images>>

ThreadStart(b, i) ==
  /\ work_queue # <<>>
  /\ Head(work_queue) = <<b, i>>
  /\ Cardinality(RunningThreads) < up_max_workers
  /\ work_queue' = Tail(work_queue)
  /\ upc' = [upc EXCEPT ![b][i] = "exec"]
  /\ UNCHANGED <<tqvars, genvars, flowvars, extvars, up_max_workers, executor_shutdown, up_pc, images_dict,
                 up_semaphore, up_attempt, up_result, up_fail, upscaled_images>>

(* an attempt of _upscale_with_retry returns non-empty bytes: the thread    *)
(* returns them                                                             *)
UpscaleReturns(b, i) ==
  /\ upc[b][i] = "exec"
  /\ upc' = [upc EXCEPT ![b][i] = "resume"]
  /\ up_result' = [up_result EXCEPT ![b][i] = UpscaledBytes(images_dict[b][i])]
  /\ UNCHANGED <<tqvars, genvars, flowvars, extvars, up_max_workers, executor_shutdown, work_queue, up_pc,
                 images_dict, up_semaphore, up_attempt, up_fail, upscaled_images>>

(* an attempt raises (the thread then sleeps before the next one) or        *)
(* returns nothing; after the attempt numbered max_retries the thread       *)
(* returns None                                                             *)
UpFailureKinds == {"exception", "empty"}

UpscaleFails(b, i, kind) ==
  /\ upc[b][i] = "exec"
  /\ IF up_attempt[b][i] < UpMaxRetries
       THEN /\ up_attempt' = [up_attempt EXCEPT ![b][i] = @ + 1]
            /\ UNCHANGED <<upc, up_fail>>
       ELSE /\ upc' = [upc EXCEPT ![b][i] = "resume"]
            /\ up_fail' = [up_fail EXCEPT ![b][i] = kind]
            /\ UNCHANGED up_attempt
  /\ UNCHANGED <<tqvars, genvars, flowvars, extvars, up_max_workers, executor_shutdown, work_queue, up_pc,
                 images_dict, up_semaphore, up_result, upscaled_images>>

(* the event loop resumes limited_upscale with the thread's result: it      *)
(* leaves `async with` and returns (key, result)                            *)
LimitedUpscaleReturns(b, i) ==
  /\ upc[b][i] = "resume"
  /\ upc' = [upc EXCEPT ![b][i] = "done"]
  /\ up_semaphore' = [up_semaphore EXCEPT ![b] = @ + 1]
  /\ UNCHANGED <<tqvars, genvars, flowvars, extvars, up_max_workers, executor_shutdown, work_queue, up_pc,
                 images_dict, up_attempt, up_result, up_fail, upscaled_images>>

(* gather has every result: the result loop builds upscaled_images *)
UpGatherReturns(b) ==
  /\ up_pc[b] = "running"
  /\ \A i \in UpJobs(b) : upc[b][i] = "done"
  /\ up_pc' = [up_pc EXCEPT ![b] = "returned"]
  /\ upscaled_images' = [upscaled_images EXCEPT ![b] = ResultLoop(b)]
  /\ UNCHANGED <<tqvars, genvars, flowvars, extvars, up_max_workers, executor_shutdown, work_queue,
                 images_dict, up_semaphore, upc, up_attempt, up_result, up_fail>>

(* shutdown(): executor.shutdown(wait=True) returns when the pool has no    *)
(* work left; it blocks the calling thread until then                       *)
Shutdown ==
  /\ ~executor_shutdown
  /\ work_queue = <<>>
  /\ RunningThreads = {}
  /\ executor_shutdown' = TRUE
  /\ UNCHANGED <<tqvars, genvars, flowvars, extvars, up_max_workers, work_queue, up_pc, images_dict,
                 up_semaphore, upc, up_attempt, up_result, up_fail, upscaled_images>>

(* ========================= ParallelWorkflowManager ====================== *)
(* process_request_parallel and process_request_with_background_array_      *)
(* parallel run the same steps inside one try block; an exception that      *)
(* leaves a step reaches the outer except, which raises HTTPException(500). *)
(* The generator and the upscaler are seen through what they hand back: a   *)
(* non-empty map or a ValueError, a map with the keys it was given.         *)
(* Every await and every write that can fail is a step of its own; the     *)
(* code between two awaits of one request runs without interruption.        *)
Requests == 1..MaxRequests
VariationKeys == {"frontside", "sideview"}

(* a map of image bytes: key -> "generated" or "upscaled"; <<>> is {} *)
EmptyDict == <<>>
GeneratedDict(ok) == [k \in ok |-> "generated"]
(* what upscale_with_fallback returns for a map when the jobs of the keys   *)
(* in `up` got upscaled bytes: every key is kept, with the upscaled bytes   *)
(* or, as fallback, the bytes it had                                        *)
UpscaledDictDropsFailed(d, up) == [k \in up |-> "upscaled"]

UpscaledDict(d, up) == [k \in DOMAIN d |-> IF k \in up THEN "upscaled" ELSE d[k]]

NoTaskObj == [pc |-> "none", dict |-> EmptyDict]
NoParallelResults == [names |-> {}, upscaling |-> EmptyDict, video |-> "none"]
NothingPersisted ==
  [original |-> EmptyDict, upscaled |-> EmptyDict, generated |-> EmptyDict,
   video |-> FALSE, excel |-> FALSE]
NoResponse ==
  [image_variations |-> {}, upscale_image |-> EmptyDict,
   output_video_url |-> FALSE, excel_report_url |-> FALSE, total_variations |-> 0]

(* the tasks have reached an outcome: returned a result or None *)
TaskOutcomes == {"returned", "empty", "failed"}
TaskDone(t) == t.pc \in TaskOutcomes \cup {"none"}

(* ParallelWorkflowManager.__init__; no request made yet *)
FlowIdle ==
  /\ flow_pc = [r \in Requests |-> "idle"]
  /\ upscale = [r \in Requests |-> FALSE]
  /\ isVideo = [r \in Requests |-> FALSE]
  /\ original_variations_bytes_dict = [r \in Requests |-> EmptyDict]
  /\ all_variations_bytes_dict = [r \in Requests |-> EmptyDict]
  /\ upscale_task = [r \in Requests |-> NoTaskObj]
  /\ video_task = [r \in Requests |-> NoTaskObj]
  /\ parallel_results = [r \in Requests |-> NoParallelResults]
  /\ persisted = [r \in Requests |-> NothingPersisted]
  /\ response = [r \in Requests |-> NoResponse]
  /\ started = [r \in Requests |-> {}]
  /\ gen_succeeded = [r \in Requests |-> {}]
  /\ failed_in = [r \in Requests |-> "none"]

(* the jobs of a background-array request: one per view and background     *)
(* kind, keyed "<view>_<kind>_1"                                            *)
E2EKeys == (1..MaxViews) \X (1..MaxKinds)

(* requests whose arguments give one job per key of VariationKeys *)
FlowInit == FlowIdle /\ job_keys = [r \in Requests |-> VariationKeys]

(* the outer except: raise HTTPException(status_code=500, ...) *)
RaiseHTTPException(r, step) ==
  /\ flow_pc' = [flow_pc EXCEPT ![r] = "raised"]
  /\ failed_in' = [failed_in EXCEPT ![r] = step]

(* the call up to Step 1: await self._analyze_with_gemini_combined(...) or  *)
(* self._analyze_with_openai(...)                                           *)
ProcessRequestParallel(r, up, vid) ==
  /\ flow_pc[r] = "idle"
  /\ flow_pc' = [flow_pc EXCEPT ![r] = "analysis"]
  /\ upscale' = [upscale EXCEPT ![r] = up]
  /\ isVideo' = [isVideo EXCEPT ![r] = vid]
  /\ started' = [started EXCEPT ![r] = @ \cup {"analysis"}]
  /\ UNCHANGED <<tqvars, genvars, upvars, extvars, job_keys, gen_succeeded, original_variations_bytes_dict,
                 all_variations_bytes_dict, upscale_task, video_task, parallel_results,
                 persisted, response, failed_in>>

(* the analysis returns analysis_json; Step 2 enters ConcurrentImageGenerator *)
(* and awaits the batch of generation jobs                                  *)
AnalysisReturns(r) ==
  /\ flow_pc[r] = "analysis"
  /\ flow_pc' = [flow_pc EXCEPT ![r] = "generation"]
  /\ started' = [started EXCEPT ![r] = @ \cup {"generation"}]
  /\ UNCHANGED <<tqvars, genvars, upvars, extvars, job_keys, gen_succeeded, upscale, isVideo, original_variations_bytes_dict,
                 all_variations_bytes_dict, upscale_task, video_task, parallel_results,
                 persisted, response, failed_in>>

(* the analysis raises ValueError("Failed during ... analysis") *)
AnalysisRaisesGoesOn(r) ==
  /\ flow_pc[r] = "analysis"
  /\ flow_pc' = [flow_pc EXCEPT ![r] = "generation"]
  /\ failed_in' = [failed_in EXCEPT ![r] = "analysis"]
  /\ started' = [started EXCEPT ![r] = @ \cup {"generation"}]
  /\ UNCHANGED <<tqvars, genvars, upvars, extvars, job_keys, gen_succeeded, upscale, isVideo, original_variations_bytes_dict,
                 all_variations_bytes_dict, upscale_task, video_task, parallel_results,
                 persisted, response>>

AnalysisRaises(r) ==
  /\ flow_pc[r] = "analysis"
  /\ RaiseHTTPException(r, "analysis")
  /\ UNCHANGED <<tqvars, genvars, upvars, extvars, job_keys, gen_succeeded, upscale, isVideo, original_variations_bytes_dict,
                 all_variations_bytes_dict, upscale_task, video_task, parallel_results,
                 persisted, response, started>>

(* Step 3 up to its await: copy the map, create the requested tasks with    *)
(* asyncio.create_task, then await _execute_parallel_tasks if there is one  *)
CreateTasks(r, ok) ==
  /\ original_variations_bytes_dict' = [original_variations_bytes_dict EXCEPT ![r] = GeneratedDict(ok)]
  /\ all_variations_bytes_dict' = [all_variations_bytes_dict EXCEPT ![r] = GeneratedDict(ok)]
  /\ upscale_task' = [upscale_task EXCEPT ![r].pc = IF upscale[r] THEN "pending" ELSE "none"]
  /\ video_task' = [video_task EXCEPT ![r].pc = IF isVideo[r] THEN "pending" ELSE "none"]
  /\ started' = [started EXCEPT ![r] = @ \cup (IF upscale[r] THEN {"upscale"} ELSE {})
                                          \cup (IF isVideo[r] THEN {"video"} ELSE {})]
  /\ flow_pc' = [flow_pc EXCEPT ![r] = IF upscale[r] \/ isVideo[r] THEN "gather" ELSE "save_images"]
  /\ UNCHANGED failed_in

(* the generator call ends: with the jobs in `ok` succeeded it returns the  *)
(* primary image and the map of their images; with none it raises           *)
(* ValueError, and a missing primary image raises ValueError here           *)
GenerationEndsGoesOn(r, ok) ==
  /\ flow_pc[r] = "generation"
  /\ ok \subseteq job_keys[r]
  /\ gen_succeeded' = [gen_succeeded EXCEPT ![r] = ok]
  /\ CreateTasks(r, ok)
  /\ UNCHANGED <<tqvars, genvars, upvars, extvars, job_keys, upscale, isVideo, parallel_results,
                 persisted, response>>

GenerationEnds(r, ok) ==
  /\ flow_pc[r] = "generation"
  /\ ok \subseteq job_keys[r]
  /\ gen_succeeded' = [gen_succeeded EXCEPT ![r] = ok]
  /\ IF ok = {}
       THEN /\ RaiseHTTPException(r, "generation")
            /\ UNCHANGED <<original_variations_bytes_dict, all_variations_bytes_dict,
                           upscale_task, video_task, started>>
       ELSE CreateTasks(r, ok)
  /\ UNCHANGED <<tqvars, genvars, upvars, extvars, job_keys, upscale, isVideo, parallel_results,
                 persisted, response>>

(* the event loop runs a created task up to its first await: upscale()      *)
(* awaits upscale_with_fallback, generate_video() awaits isVideo(...)       *)
UpscaleTaskStarts(r) ==
  /\ flow_pc[r] = "gather"
  /\ upscale_task[r].pc = "pending"
  /\ upscale_task' = [upscale_task EXCEPT ![r].pc = "running"]
  /\ UNCHANGED <<tqvars, genvars, upvars, extvars, job_keys, gen_succeeded, flow_pc, upscale, isVideo,
                 original_variations_bytes_dict, all_variations_bytes_dict, video_task,
                 parallel_results, persisted, response, started, failed_in>>

VideoTaskStarts(r) ==
  /\ flow_pc[r] = "gather"
  /\ video_task[r].pc = "pending"
  /\ video_task' = [video_task EXCEPT ![r].pc = "running"]
  /\ UNCHANGED <<tqvars, genvars, upvars, extvars, job_keys, gen_succeeded, flow_pc, upscale, isVideo,
                 original_variations_bytes_dict, all_variations_bytes_dict, upscale_task,
                 parallel_results, persisted, response, started, failed_in>>

(* upscale() returns (upscaled_dict, upscaled_primary) *)
UpscaleTaskReturns(r, up) ==
  /\ upscale_task[r].pc = "running"
  /\ up \subseteq DOMAIN all_variations_bytes_dict[r]
  /\ upscale_task' = [upscale_task EXCEPT ![r] =
                        [pc |-> "returned", dict |-> UpscaledDict(all_variations_bytes_dict[r], up)]]
  /\ UNCHANGED <<tqvars, genvars, upvars, extvars, job_keys, gen_succeeded, flow_pc, upscale, isVideo,
                 original_variations_bytes_dict, all_variations_bytes_dict, video_task,
                 parallel_results, persisted, response, started, failed_in>>

(* an exception in upscale(): its except clause returns None *)
UpscaleTaskFails(r) ==
  /\ upscale_task[r].pc = "running"
  /\ upscale_task' = [upscale_task EXCEPT ![r].pc = "failed"]
  /\ UNCHANGED <<tqvars, genvars, upvars, extvars, job_keys, gen_succeeded, flow_pc, upscale, isVideo,
                 original_variations_bytes_dict, all_variations_bytes_dict, video_task,
                 parallel_results, persisted, response, started, failed_in>>

(* generate_video() returns the video bytes, returns the None isVideo gave, *)
(* or its except clause returns None                                        *)
VideoTaskEndsCancelsUpscale(r, outcome) ==
  /\ video_task[r].pc = "running"
  /\ video_task' = [video_task EXCEPT ![r].pc = outcome]
  /\ IF outcome = "failed" /\ upscale_task[r].pc \in {"pending", "running"}
       THEN upscale_task' = [upscale_task EXCEPT ![r].pc = "failed"]
       ELSE UNCHANGED upscale_task
  /\ UNCHANGED <<tqvars, genvars, upvars, extvars, job_keys, gen_succeeded, flow_pc, upscale, isVideo,
                 original_variations_bytes_dict, all_variations_bytes_dict,
                 parallel_results, persisted, response, started, failed_in>>

VideoTaskEnds(r, outcome) ==
  /\ video_task[r].pc = "running"
  /\ video_task' = [video_task EXCEPT ![r].pc = outcome]
  /\ UNCHANGED <<tqvars, genvars, upvars, extvars, job_keys, gen_succeeded, flow_pc, upscale, isVideo,
                 original_variations_bytes_dict, all_variations_bytes_dict, upscale_task,
                 parallel_results, persisted, response, started, failed_in>>

(* _execute_parallel_tasks: gather(..., return_exceptions=True) has the     *)
(* result of every task; the caller rebinds the map to a truthy upscale     *)
(* result                                                                   *)
ParallelResults(r) ==
  [names |-> (IF upscale_task[r].pc # "none" THEN {"upscaling"} ELSE {})
               \cup (IF video_task[r].pc # "none" THEN {"video"} ELSE {}),
   upscaling |-> upscale_task[r].dict,
   video |-> IF video_task[r].pc = "returned" THEN "bytes" ELSE "none"]

GatherResumesRebindsNone(r) ==
  /\ parallel_results' = [parallel_results EXCEPT ![r] = ParallelResults(r)]
  /\ all_variations_bytes_dict' =
       [all_variations_bytes_dict EXCEPT ![r] =
          IF upscale[r] /\ upscale_task[r].pc # "none" THEN upscale_task[r].dict ELSE @]
  /\ flow_pc' = [flow_pc EXCEPT ![r] = "save_images"]
  /\ UNCHANGED <<tqvars, genvars, upvars, extvars, job_keys, gen_succeeded, upscale, isVideo, original_variations_bytes_dict,
                 upscale_task, video_task, persisted, response, started, failed_in>>

GatherResumes(r) ==
  /\ parallel_results' = [parallel_results EXCEPT ![r] = ParallelResults(r)]
  /\ all_variations_bytes_dict' =
       [all_variations_bytes_dict EXCEPT ![r] =
          IF upscale[r] /\ upscale_task[r].pc = "returned" THEN upscale_task[r].dict ELSE @]
  /\ flow_pc' = [flow_pc EXCEPT ![r] = "save_images"]
  /\ UNCHANGED <<tqvars, genvars, upvars, extvars, job_keys, gen_succeeded, upscale, isVideo, original_variations_bytes_dict,
                 upscale_task, video_task, persisted, response, started, failed_in>>

ExecuteParallelTasksFirstDone(r) ==
  /\ flow_pc[r] = "gather"
  /\ upscale_task[r].pc \in TaskOutcomes \/ video_task[r].pc \in TaskOutcomes
  /\ GatherResumes(r)

ExecuteParallelTasks(r) ==
  /\ flow_pc[r] = "gather"
  /\ TaskDone(upscale_task[r]) /\ TaskDone(video_task[r])
  /\ GatherResumes(r)

(* Step 4, saving the images: save_original_and_upscaled_images writes the  *)
(* copy of the generated map and the current map; without upscale,          *)
(* save_generated_image_variations writes the current map                   *)
SaveImages(r) ==
  /\ flow_pc[r] = "save_images"
  /\ persisted' = [persisted EXCEPT ![r] =
                     IF upscale[r]
                       THEN [@ EXCEPT !.original = original_variations_bytes_dict[r],
                                      !.upscaled = all_variations_bytes_dict[r]]
                       ELSE [@ EXCEPT !.generated = all_variations_bytes_dict[r]]]
  /\ flow_pc' = [flow_pc EXCEPT ![r] = "save_video"]
  /\ UNCHANGED <<tqvars, genvars, upvars, extvars, job_keys, gen_succeeded, upscale, isVideo, original_variations_bytes_dict,
                 all_variations_bytes_dict, upscale_task, video_task, parallel_results,
                 response, started, failed_in>>

(* a write or an upload fails: with upscale the originals may already be    *)
(* written                                                                  *)
SaveImagesRaisesGoesOn(r, partial) ==
  /\ flow_pc[r] = "save_images"
  /\ persisted' = [persisted EXCEPT ![r].original =
                     IF upscale[r] /\ partial THEN original_variations_bytes_dict[r] ELSE @]
  /\ flow_pc' = [flow_pc EXCEPT ![r] = "save_video"]
  /\ failed_in' = [failed_in EXCEPT ![r] = "save_images"]
  /\ UNCHANGED <<tqvars, genvars, upvars, extvars, job_keys, gen_succeeded, upscale, isVideo, original_variations_bytes_dict,
                 all_variations_bytes_dict, upscale_task, video_task, parallel_results,
                 response, started>>

SaveImagesRaises(r, partial) ==
  /\ flow_pc[r] = "save_images"
  /\ persisted' = [persisted EXCEPT ![r].original =
                     IF upscale[r] /\ partial THEN original_variations_bytes_dict[r] ELSE @]
  /\ RaiseHTTPException(r, "save_images")
  /\ UNCHANGED <<tqvars, genvars, upvars, extvars, job_keys, gen_succeeded, upscale, isVideo, original_variations_bytes_dict,
                 all_variations_bytes_dict, upscale_task, video_task, parallel_results,
                 response, started>>

(* the video result: bytes are saved with save_generated_video, None leaves *)
(* video_url None; then _generate_excel_report_async is awaited             *)
HasVideoBytes(r) ==
  isVideo[r] /\ "video" \in parallel_results[r].names /\ parallel_results[r].video = "bytes"

HandleVideoResult(r) ==
  /\ flow_pc[r] = "save_video"
  /\ persisted' = [persisted EXCEPT ![r].video = HasVideoBytes(r)]
  /\ flow_pc' = [flow_pc EXCEPT ![r] = "excel"]
  /\ UNCHANGED <<tqvars, genvars, upvars, extvars, job_keys, gen_succeeded, upscale, isVideo, original_variations_bytes_dict,
                 all_variations_bytes_dict, upscale_task, video_task, parallel_results,
                 response, started, failed_in>>

SaveVideoRaises(r) ==
  /\ flow_pc[r] = "save_video"
  /\ HasVideoBytes(r)
  /\ RaiseHTTPException(r, "save_video")
  /\ UNCHANGED <<tqvars, genvars, upvars, extvars, job_keys, gen_succeeded, upscale, isVideo, original_variations_bytes_dict,
                 all_variations_bytes_dict, upscale_task, video_task, parallel_results,
                 persisted, response, started>>

(* the report is created and saved; the response is built from the saved    *)
(* URLs                                                                     *)
OriginalUrls(r) == IF upscale[r] THEN persisted[r].original ELSE persisted[r].generated

ExcelReturns(r) ==
  /\ flow_pc[r] = "excel"
  /\ persisted' = [persisted EXCEPT ![r].excel = TRUE]
  /\ response' = [response EXCEPT ![r] =
                    [image_variations |-> DOMAIN OriginalUrls(r),
                     upscale_image |-> IF upscale[r] THEN persisted[r].upscaled ELSE EmptyDict,
                     output_video_url |-> persisted[r].video,
                     excel_report_url |-> TRUE,
                     total_variations |-> Cardinality(DOMAIN OriginalUrls(r))]]
  /\ flow_pc' = [flow_pc EXCEPT ![r] = "returned"]
  /\ UNCHANGED <<tqvars, genvars, upvars, extvars, job_keys, gen_succeeded, upscale, isVideo, original_variations_bytes_dict,
                 all_variations_bytes_dict, upscale_task, video_task, parallel_results,
                 started, failed_in>>

(* create_report or save_excel_report raises: HTTPException from            *)
(* _generate_excel_report_async, wrapped again by the outer except          *)
ExcelRaises(r) ==
  /\ flow_pc[r] = "excel"
  /\ RaiseHTTPException(r, "excel")
  /\ UNCHANGED <<tqvars, genvars, upvars, extvars, job_keys, gen_succeeded, upscale, isVideo, original_variations_bytes_dict,
                 all_variations_bytes_dict, upscale_task, video_task, parallel_results,
                 persisted, response, started>>

(* ------------------- the backoff of the retry loop ---------------------- *)
(* The loop of _generate_single_image_concurrent with its clock: the loop   *)
(* time is counted in ticks of 1 / TicksPerSecond seconds.                  *)
BoJobs == 1..MaxBackoffJobs

BaseDelay == 1

RECURSIVE Pow2(_)
Pow2(n) == IF n = 0 THEN 1 ELSE 2 * Pow2(n - 1)

(* line 94: base_delay * (2 ** attempt) + (loop.time() % 1), in ticks *)
Delay(a, now) == BaseDelay * Pow2(a) * TicksPerSecond + (now % TicksPerSecond)

BoUnused ==
  /\ loop_time = 0
  /\ bo_pc = [j \in BoJobs |-> "done"]
  /\ bo_attempt = [j \in BoJobs |-> 0]
  /\ delay = [j \in BoJobs |-> 0]
  /\ wake = [j \in BoJobs |-> 0]
  /\ failed_at = [j \in BoJobs |-> 0]

(* the jobs of a batch, each in its first attempt *)
BoInit ==
  /\ loop_time = 0
  /\ bo_pc = [j \in BoJobs |-> "call"]
  /\ bo_attempt = [j \in BoJobs |-> 0]
  /\ delay = [j \in BoJobs |-> 0]
  /\ wake = [j \in BoJobs |-> 0]
  /\ failed_at = [j \in BoJobs |-> 0]

(* the clock of the event loop goes on *)
TimePasses ==
  /\ loop_time < MaxLoopTime
  /\ loop_time' = loop_time + 1
  /\ UNCHANGED <<bo_pc, bo_attempt, delay, wake, failed_at>>
  /\ UNCHANGED <<corevars, notbo>>

(* lines 98-105: the awaited call returns an image, the loop returns it *)
AttemptEndsOk(j) ==
  /\ bo_pc[j] = "call"
  /\ bo_pc' = [bo_pc EXCEPT ![j] = "done"]
  /\ UNCHANGED <<loop_time, bo_attempt, delay, wake, failed_at>>
  /\ UNCHANGED <<corevars, notbo>>

(* lines 106-116 and then 91-96: the attempt failed; the next iteration     *)
(* computes its delay from the loop time and sleeps, in the same step of    *)
(* the event loop; after the last iteration the function returns None       *)
AttemptEndsFailed(j) ==
  /\ bo_pc[j] = "call"
  /\ failed_at' = [failed_at EXCEPT ![j] = loop_time]
  /\ IF HasNextAttempt(bo_attempt[j])
     THEN /\ bo_attempt' = [bo_attempt EXCEPT ![j] = @ + 1]
          /\ delay' = [delay EXCEPT ![j] = Delay(bo_attempt[j] + 1, loop_time)]
          /\ wake' = [wake EXCEPT ![j] = loop_time + Delay(bo_attempt[j] + 1, loop_time)]
          /\ bo_pc' = [bo_pc EXCEPT ![j] = "sleep"]
     ELSE /\ bo_pc' = [bo_pc EXCEPT ![j] = "done"]
          /\ UNCHANGED <<bo_attempt, delay, wake>>
  /\ UNCHANGED loop_time
  /\ UNCHANGED <<corevars, notbo>>

(* line 96: asyncio.sleep(delay) returns, not before it is due *)
SleepReturns(j) ==
  /\ bo_pc[j] = "sleep"
  /\ loop_time >= wake[j]
  /\ bo_pc' = [bo_pc EXCEPT ![j] = "call"]
  /\ UNCHANGED <<loop_time, bo_attempt, delay, wake, failed_at>>
  /\ UNCHANGED <<corevars, notbo>>

(* ------------- the generation batches of concurrent requests ----------- *)
(* Each request builds its own ConcurrentImageGenerator and calls one of    *)
(* its generate_images_*_concurrent methods (parallel_workflow_manager.py   *)
(* 88 and 269); the call creates the semaphore of its batch. The retry loop *)
(* of a job runs under the permit and is seen here by its return only.      *)
CapJobs == 1..MaxCapJobs

CapUnused ==
  /\ cap_pc = [r \in Requests |-> "idle"]
  /\ cap_tasks = [r \in Requests |-> 0]
  /\ cap_semaphore = [r \in Requests |-> 0]
  /\ cap_jpc = [r \in Requests |-> [j \in CapJobs |-> "none"]]

(* lines 201 / 357 and the gather below them: the batch of request r, of n  *)
(* tasks, creates its semaphore and its limited_generation coroutines       *)
CapBatchStarts(r, n) ==
  /\ cap_pc[r] = "idle"
  /\ cap_pc' = [cap_pc EXCEPT ![r] = "running"]
  /\ cap_tasks' = [cap_tasks EXCEPT ![r] = n]
  /\ cap_semaphore' = [cap_semaphore EXCEPT ![r] = Min(max_concurrent_generations, n)]
  /\ cap_jpc' = [cap_jpc EXCEPT ![r] = [j \in CapJobs |-> IF j <= n THEN "acquire" ELSE "none"]]
  /\ UNCHANGED <<corevars, notcap>>

(* `async with semaphore` of the batch of request r, waiters in list order *)
CapJobAcquire(r, j) ==
  /\ cap_jpc[r][j] = "acquire"
  /\ cap_semaphore[r] > 0
  /\ \A i \in CapJobs : cap_jpc[r][i] = "acquire" => j <= i
  /\ cap_semaphore' = [cap_semaphore EXCEPT ![r] = @ - 1]
  /\ cap_jpc' = [cap_jpc EXCEPT ![r][j] = "call"]
  /\ UNCHANGED <<cap_pc, cap_tasks>>
  /\ UNCHANGED <<corevars, notcap>>

(* _generate_single_image_concurrent returns, the permit is given back *)
CapJobReturns(r, j) ==
  /\ cap_jpc[r][j] = "call"
  /\ cap_semaphore' = [cap_semaphore EXCEPT ![r] = @ + 1]
  /\ cap_jpc' = [cap_jpc EXCEPT ![r][j] = "done"]
  /\ UNCHANGED <<cap_pc, cap_tasks>>
  /\ UNCHANGED <<corevars, notcap>>

(* gather has every result and the call returns *)
CapBatchReturns(r) ==
  /\ cap_pc[r] = "running"
  /\ \A j \in CapJobs : cap_jpc[r][j] \in {"none", "done"}
  /\ cap_pc' = [cap_pc EXCEPT ![r] = "returned"]
  /\ UNCHANGED <<cap_tasks, cap_semaphore, cap_jpc>>
  /\ UNCHANGED <<corevars, notcap>>

(* ------------- the upscaler's entry points on the event loop ------------ *)
(* One coroutine calls an entry point of the upscaler while another         *)
(* coroutine (the video branch, another request) has steps to run on the    *)
(* same event loop. The pool threads run beside the loop thread.            *)
EntryPoints == {"upscale_with_fallback", "upscale_images_concurrent"}

LoopUnused ==
  /\ cu_entry = "none"
  /\ cu_pc = "idle"
  /\ future = [i \in Slots |-> "none"]
  /\ other_steps = 0
  /\ concurrent_images = <<>>

(* the images of the call whose work no thread has finished *)
Unfinished == {i \in Slots : future[i] \in {"pending", "running"}}

(* lines 169-189 / 73-85: the call hands one work item per image to the     *)
(* pool. upscale_with_fallback awaits the gather of its run_in_executor     *)
(* futures: the coroutine is suspended. upscale_images_concurrent enters    *)
(* `for future in as_completed(future_to_task)`, a call of                  *)
(* concurrent.futures that waits on a threading condition: the loop thread  *)
(* is inside it                                                             *)
CallEntryPoint(e, n) ==
  /\ cu_pc = "idle"
  /\ cu_entry' = e
  /\ future' = [i \in Slots |-> IF i <= n THEN "pending" ELSE "none"]
  /\ cu_pc' = IF e = "upscale_with_fallback" THEN "awaiting" ELSE "as_completed"
  /\ concurrent_images' = <<>>
  /\ UNCHANGED other_steps
  /\ UNCHANGED <<corevars, notloop>>

(* a pool thread takes the work of image i *)
PoolThreadStarts(i) ==
  /\ future[i] = "pending"
  /\ Cardinality({k \in Slots : future[k] = "running"}) < up_max_workers
  /\ future' = [future EXCEPT ![i] = "running"]
  /\ UNCHANGED <<cu_entry, cu_pc, other_steps, concurrent_images>>
  /\ UNCHANGED <<corevars, notloop>>

(* the thread finishes it and sets the future *)
PoolThreadFinishes(i) ==
  /\ future[i] = "running"
  /\ future' = [future EXCEPT ![i] = "finished"]
  /\ UNCHANGED <<cu_entry, cu_pc, other_steps, concurrent_images>>
  /\ UNCHANGED <<corevars, notloop>>

(* lines 85-106: as_completed yields a finished future, the loop body       *)
(* stores its result (or the original bytes) under task.key, a new key at   *)
(* the end of the dict, and `await asyncio.sleep(0)` suspends the coroutine *)
AsCompletedYields(i) ==
  /\ cu_pc = "as_completed"
  /\ future[i] = "finished"
  /\ future' = [future EXCEPT ![i] = "collected"]
  /\ concurrent_images' = Append(concurrent_images, i)
  /\ cu_pc' = "sleep0"
  /\ UNCHANGED <<cu_entry, other_steps>>
  /\ UNCHANGED <<corevars, notloop>>

(* the loop resumes the coroutine after sleep(0): the `for` asks            *)
(* as_completed for the next future or, when there is none, the call        *)
(* returns (lines 108-111)                                                  *)
SleepZeroReturns ==
  /\ cu_pc = "sleep0"
  /\ cu_pc' = IF \E i \in Slots : future[i] \in {"pending", "running", "finished"}
              THEN "as_completed" ELSE "returned"
  /\ UNCHANGED <<cu_entry, future, other_steps, concurrent_images>>
  /\ UNCHANGED <<corevars, notloop>>

(* lines 185-212: every run_in_executor future is set, the loop resumes the *)
(* gather, whose result list has the order of the tasks; the result loop    *)
(* stores one entry per result in that order and upscale_with_fallback      *)
(* returns                                                                  *)
AwaitedGatherReturns ==
  /\ cu_pc = "awaiting"
  /\ \A i \in Slots : future[i] \in {"none", "finished"}
  /\ future' = [i \in Slots |-> IF future[i] = "finished" THEN "collected" ELSE future[i]]
  /\ concurrent_images' = [k \in 1..Cardinality({i \in Slots : future[i] = "finished"}) |-> k]
  /\ cu_pc' = "returned"
  /\ UNCHANGED <<cu_entry, other_steps>>
  /\ UNCHANGED <<corevars, notloop>>

(* the event loop runs a step of the other coroutine: the loop thread is    *)
(* not inside a blocking call                                               *)
OtherCoroutineRuns ==
  /\ cu_pc # "as_completed"
  /\ other_steps < MaxOtherSteps
  /\ other_steps' = other_steps + 1
  /\ UNCHANGED <<cu_entry, cu_pc, future, concurrent_images>>
  /\ UNCHANGED <<corevars, notloop>>

(* ----------------- the utility functions of the upscaler --------------- *)
(* upscale_images_parallel and upscale_with_original_fallback: each call    *)
(* builds a ConcurrentUpscaler, awaits one of its entry points under `try`  *)
(* and shuts the upscaler down under `finally`.                             *)
UtilCalls == 1..MaxUtilCalls
UtilityFunctions == {"upscale_images_parallel", "upscale_with_original_fallback"}
UtilExits == {"exception", "cancelled"}

(* no executor: the call has not built one *)
NoPool == [state |-> "none", max_workers |-> 0]

UtilUnused ==
  /\ util_pc = [u \in UtilCalls |-> "idle"]
  /\ util_fn = [u \in UtilCalls |-> "none"]
  /\ pool = [u \in UtilCalls |-> NoPool]
  /\ pool_threads = [u \in UtilCalls |-> 0]

(* lines 275 / 297 with 28-38: the constructor. ThreadPoolExecutor raises   *)
(* ValueError for max_workers <= 0 and then no executor exists; otherwise   *)
(* the call goes on to await the entry point                                *)
UtilityCall(u, fn, mw) ==
  /\ util_pc[u] = "idle"
  /\ util_fn' = [util_fn EXCEPT ![u] = fn]
  /\ IF mw <= 0
     THEN /\ util_pc' = [util_pc EXCEPT ![u] = "raised"]
          /\ UNCHANGED pool
     ELSE /\ util_pc' = [util_pc EXCEPT ![u] = "awaiting"]
          /\ pool' = [pool EXCEPT ![u] = [state |-> "alive", max_workers |-> mw]]
  /\ UNCHANGED pool_threads
  /\ UNCHANGED <<corevars, notutil>>

(* executor.submit / run_in_executor of the entry point starts a worker     *)
(* thread while the executor has fewer than max_workers                     *)
PoolSpawnsThread(u) ==
  /\ util_pc[u] = "awaiting"
  /\ pool_threads[u] < pool[u].max_workers
  /\ pool_threads' = [pool_threads EXCEPT ![u] = @ + 1]
  /\ UNCHANGED <<util_pc, util_fn, pool>>
  /\ UNCHANGED <<corevars, notutil>>

(* lines 252-256: executor.shutdown(wait=True) ends and joins every thread *)
PoolAfterShutdown(p) == [p EXCEPT !.state = "shutdown"]

(* lines 276-279 / 298-301: the entry point returns and `finally` runs *)
UtilityReturns(u) ==
  /\ util_pc[u] = "awaiting"
  /\ pool' = [pool EXCEPT ![u] = PoolAfterShutdown(@)]
  /\ pool_threads' = [pool_threads EXCEPT ![u] = 0]
  /\ util_pc' = [util_pc EXCEPT ![u] = "returned"]
  /\ UNCHANGED util_fn
  /\ UNCHANGED <<corevars, notutil>>

(* the same call without its `finally` *)
UtilityRaisesNoFinally(u, kind) ==
  /\ util_pc[u] = "awaiting"
  /\ util_pc' = [util_pc EXCEPT ![u] = kind]
  /\ UNCHANGED <<util_fn, pool, pool_threads>>
  /\ UNCHANGED <<corevars, notutil>>

(* the awaited entry point raises, or the task of the call is cancelled     *)
(* while it awaits: `finally` runs and the exception goes on to the caller  *)
UtilityRaises(u, kind) ==
  /\ util_pc[u] = "awaiting"
  /\ pool' = [pool EXCEPT ![u] = PoolAfterShutdown(@)]
  /\ pool_threads' = [pool_threads EXCEPT ![u] = 0]
  /\ util_pc' = [util_pc EXCEPT ![u] = kind]
  /\ UNCHANGED util_fn
  /\ UNCHANGED <<corevars, notutil>>

(* ------------------- the submit and poll endpoints ---------------------- *)
(* generate.py: POST /generate/image answers with a new request_id and      *)
(* leaves the work to a background task, which the framework starts after   *)
(* the response has been sent; GET /generate/image reads the registry.      *)
Statuses == {"processing", "completed", "failed"}

ApiUnused ==
  /\ api_pc = [r \in Requests |-> "none"]
  /\ generation_results = [r \in Requests |-> "absent"]
  /\ poll_answer = [r \in Requests |-> "none"]
  /\ cleanup_raised = [r \in Requests |-> FALSE]

(* lines 46-95: the handler parses the request, draws the id, adds the      *)
(* background task and returns {'id': request_id, 'status': 'processing'}   *)
GenerateFashionImage(r) ==
  /\ api_pc[r] = "none"
  /\ api_pc' = [api_pc EXCEPT ![r] = "responded"]
  /\ UNCHANGED <<generation_results, poll_answer, cleanup_raised>>
  /\ UNCHANGED <<corevars, notapi>>

(* lines 48-60, 97-104: the request is rejected, no id is returned *)
GenerateFashionImageRaises(r) ==
  /\ api_pc[r] = "none"
  /\ api_pc' = [api_pc EXCEPT ![r] = "rejected"]
  /\ UNCHANGED <<generation_results, poll_answer, cleanup_raised>>
  /\ UNCHANGED <<corevars, notapi>>

(* lines 352-362: the background task starts and creates the entry *)
ProcessGenerationStarts(r) ==
  /\ api_pc[r] = "responded"
  /\ api_pc' = [api_pc EXCEPT ![r] = "background"]
  /\ generation_results' = [generation_results EXCEPT ![r] = "processing"]
  /\ UNCHANGED <<poll_answer, cleanup_raised>>
  /\ UNCHANGED <<corevars, notapi>>

(* lines 391-420: the workflow returned, the entry is replaced and the      *)
(* temporary files are removed                                              *)
ProcessGenerationCompletes(r) ==
  /\ api_pc[r] = "background"
  /\ api_pc' = [api_pc EXCEPT ![r] = "done"]
  /\ generation_results' = [generation_results EXCEPT ![r] = "completed"]
  /\ UNCHANGED <<poll_answer, cleanup_raised>>
  /\ UNCHANGED <<corevars, notapi>>

(* lines 422-428: an exception of the download or of the workflow *)
ProcessGenerationFails(r) ==
  /\ api_pc[r] = "background"
  /\ api_pc' = [api_pc EXCEPT ![r] = "done"]
  /\ generation_results' = [generation_results EXCEPT ![r] = "failed"]
  /\ UNCHANGED <<poll_answer, cleanup_raised>>
  /\ UNCHANGED <<corevars, notapi>>

(* the removal of the temporary files raises in a later run of the          *)
(* background task than the one that stored 'completed'                     *)
ProcessGenerationCleanupRaisesLater(r) ==
  /\ api_pc[r] = "done"
  /\ generation_results[r] = "completed"
  /\ ~cleanup_raised[r]
  /\ generation_results' = [generation_results EXCEPT ![r] = "failed"]
  /\ cleanup_raised' = [cleanup_raised EXCEPT ![r] = TRUE]
  /\ UNCHANGED <<api_pc, poll_answer>>
  /\ UNCHANGED <<corevars, notapi>>

(* lines 407-428: the workflow returned and 'completed' is stored (410);    *)
(* shutil.rmtree (419) raises inside the same try, and the except clause    *)
(* stores 'failed' (424). No await lies between the two stores: the         *)
(* background task is a coroutine on the event loop, so no poll runs        *)
(* between them                                                             *)
ProcessGenerationCleanupRaises(r) ==
  /\ api_pc[r] = "background"
  /\ api_pc' = [api_pc EXCEPT ![r] = "done"]
  /\ generation_results' = [generation_results EXCEPT ![r] = "failed"]
  /\ cleanup_raised' = [cleanup_raised EXCEPT ![r] = TRUE]
  /\ UNCHANGED poll_answer
  /\ UNCHANGED <<corevars, notapi>>

(* lines 430-447: a poll of the caller that holds the id of request r *)
CheckGenerationStatus(r) ==
  /\ api_pc[r] \in {"responded", "background", "done"}
  /\ poll_answer' = [poll_answer EXCEPT ![r] =
                       IF generation_results[r] = "absent" THEN "404"
                       ELSE generation_results[r]]
  /\ UNCHANGED <<api_pc, generation_results, cleanup_raised>>
  /\ UNCHANGED <<corevars, notapi>>

ExtUnused == BoUnused /\ CapUnused /\ LoopUnused /\ UtilUnused /\ ApiUnused

(* ------------------------------ the system ------------------------------ *)
UpUnused == UpIdle /\ up_max_workers = DefaultUpMaxWorkers

Init == TQInit /\ GenInit /\ max_concurrent_generations = DefaultMaxConcurrentGenerations /\ UpUnused /\ FlowInit /\ ExtUnused

NextTQ ==
  \/ \E pri \in 1..MaxPriority, mr \in {0, MaxRetriesArg},
        id \in UsedIds \cup {nTasks + 1} : AddTask(pri, mr, id)
  \/ \E t \in T : AddTaskResume(t)
  \/ \E w \in WorkerIds : WorkerDequeue(w)
  \/ \E w \in WorkerIds : WorkerAcquire(w)
  \/ \E w \in WorkerIds : ExecReturn(w)
  \/ \E w \in WorkerIds : ExecRaise(w)
  \/ \E w \in WorkerIds : WorkerReput(w)
  \/ \E w \in WorkerIds : WorkerExit(w)
  \/ \E w \in WorkerIds : WorkerCancelled(w)
  \/ \E t \in T : ThreadFinish(t)
  \/ Start
  \/ StopBegin
  \/ \E S \in stops : StopEnd(S)
  \/ \E id \in UsedIds : WaitTimeout(id)

Next == NextTQ

Spec == Init /\ [][Next]_vars

(* one batch call on a generator, the task queue left as constructed *)
InitGen == TQInit /\ max_workers = 1 /\ max_queue_size = 1 /\ GenInit /\ UpUnused /\ FlowInit /\ ExtUnused

NextGen ==
  \/ gen_pc = "idle" /\ \E refs \in SUBSET InputViews, n \in 0..MaxOutputs :
                           GenerateImagesConcurrent(refs, n)
  \/ gen_pc = "idle" /\ \E refs \in SUBSET BgViews, config \in Configs :
                           GenerateImagesWithBackgroundArrayConcurrent(refs, config)
  \/ \E j \in J : JobAcquire(j)
  \/ \E j \in J : AttemptReturns(j)
  \/ \E j \in J, kind \in FailureKinds : AttemptFails(j, kind)
  \/ \E j \in J : SleepEnds(j)
  \/ GatherReturns

SpecGen == InitGen /\ [][NextGen]_vars

(* The event loop runs every coroutine that is ready: a waiter is woken when *)
(* a permit is free, a generation call ends (it returns, raises, or wait_for *)
(* cuts it off after 180 s), a backoff sleep ends, gather resumes its caller. *)
GenFairness ==
  /\ \A j \in J : WF_vars(JobAcquire(j))
  /\ \A j \in J : WF_vars(AttemptReturns(j) \/ \E kind \in FailureKinds : AttemptFails(j, kind))
  /\ \A j \in J : WF_vars(SleepEnds(j))
  /\ WF_vars(GatherReturns)

SpecGenFair == InitGen /\ [][NextGen]_vars /\ GenFairness

(* calls on one upscaler instance, the queue and the generator unused *)
InitUp ==
  /\ TQInit /\ max_workers = 1 /\ max_queue_size = 1
  /\ GenInit /\ max_concurrent_generations = DefaultMaxConcurrentGenerations
  /\ UpInit
  /\ FlowInit
  /\ ExtUnused

NextUp ==
  \/ \E b \in Batches, imgs \in ImageDicts : UpscaleWithFallback(b, imgs)
  \/ \E b \in Batches, i \in Slots : LimitedUpscale(b, i)
  \/ \E b \in Batches, i \in Slots : ThreadStart(b, i)
  \/ \E b \in Batches, i \in Slots : UpscaleReturns(b, i)
  \/ \E b \in Batches, i \in Slots, kind \in UpFailureKinds : UpscaleFails(b, i, kind)
  \/ \E b \in Batches, i \in Slots : LimitedUpscaleReturns(b, i)
  \/ \E b \in Batches : UpGatherReturns(b)
  \/ Shutdown

SpecUp == InitUp /\ [][NextUp]_vars

(* requests on one manager, the queue, the generator and the upscaler seen *)
(* only through what they return                                            *)
InitFlow ==
  /\ TQInit /\ max_workers = 1 /\ max_queue_size = 1
  /\ GenInit /\ max_concurrent_generations = DefaultMaxConcurrentGenerations
  /\ UpUnused
  /\ FlowInit
  /\ ExtUnused

NextFlow ==
  \/ \E r \in Requests, up \in BOOLEAN, vid \in BOOLEAN : ProcessRequestParallel(r, up, vid)
  \/ \E r \in Requests : AnalysisReturns(r)
  \/ \E r \in Requests : AnalysisRaises(r)
  \/ \E r \in Requests, ok \in SUBSET VariationKeys : GenerationEnds(r, ok)
  \/ \E r \in Requests : UpscaleTaskStarts(r)
  \/ \E r \in Requests : VideoTaskStarts(r)
  \/ \E r \in Requests, up \in SUBSET VariationKeys : UpscaleTaskReturns(r, up)
  \/ \E r \in Requests : UpscaleTaskFails(r)
  \/ \E r \in Requests, outcome \in TaskOutcomes : VideoTaskEnds(r, outcome)
  \/ \E r \in Requests : ExecuteParallelTasks(r)
  \/ \E r \in Requests : SaveImages(r)
  \/ \E r \in Requests, partial \in BOOLEAN : SaveImagesRaises(r, partial)
  \/ \E r \in Requests : HandleVideoResult(r)
  \/ \E r \in Requests : SaveVideoRaises(r)
  \/ \E r \in Requests : ExcelReturns(r)
  \/ \E r \in Requests : ExcelRaises(r)

SpecFlow == InitFlow /\ [][NextFlow]_vars

(* one request whose arguments give a job for every view and kind; of its  *)
(* jobs all fail or at most MaxFailedJobs, of its upscales at most          *)
(* MaxFallbacks                                                             *)
E2EOutcomes ==
  {S \in SUBSET E2EKeys : S = {} \/ Cardinality(E2EKeys \ S) <= MaxFailedJobs}
E2EUpscaled ==
  {S \in SUBSET gen_succeeded[1] : Cardinality(gen_succeeded[1] \ S) <= MaxFallbacks}

InitE2E ==
  /\ TQInit /\ max_workers = 1 /\ max_queue_size = 1
  /\ GenInit /\ max_concurrent_generations = DefaultMaxConcurrentGenerations
  /\ UpUnused
  /\ FlowIdle /\ job_keys = [r \in Requests |-> E2EKeys]
  /\ ExtUnused

NextE2E ==
  \/ \E up \in BOOLEAN, vid \in BOOLEAN : ProcessRequestParallel(1, up, vid)
  \/ AnalysisReturns(1)
  \/ AnalysisRaises(1)
  \/ \E ok \in E2EOutcomes : GenerationEnds(1, ok)
  \/ UpscaleTaskStarts(1)
  \/ VideoTaskStarts(1)
  \/ \E up \in E2EUpscaled : UpscaleTaskReturns(1, up)
  \/ UpscaleTaskFails(1)
  \/ \E outcome \in TaskOutcomes : VideoTaskEnds(1, outcome)
  \/ ExecuteParallelTasks(1)
  \/ SaveImages(1)
  \/ \E partial \in BOOLEAN : SaveImagesRaises(1, partial)
  \/ HandleVideoResult(1)
  \/ SaveVideoRaises(1)
  \/ ExcelReturns(1)
  \/ ExcelRaises(1)

SpecE2E == InitE2E /\ [][NextE2E]_vars

(* the retry loops of the jobs of one batch under the clock of the loop,    *)
(* everything else unused                                                   *)
CoreUnused ==
  /\ TQInit /\ max_workers = 1 /\ max_queue_size = 1
  /\ GenInit /\ max_concurrent_generations = DefaultMaxConcurrentGenerations
  /\ UpUnused
  /\ FlowInit

InitBackoff == CoreUnused /\ BoInit /\ CapUnused /\ LoopUnused /\ UtilUnused /\ ApiUnused

NextBackoff ==
  \/ TimePasses
  \/ \E j \in BoJobs : AttemptEndsOk(j)
  \/ \E j \in BoJobs : AttemptEndsFailed(j)
  \/ \E j \in BoJobs : SleepReturns(j)

SpecBackoff == InitBackoff /\ [][NextBackoff]_vars

(* the generation batches of the requests one manager processes at a time, *)
(* every generator with a small max_concurrent_generations                  *)
InitCap ==
  /\ TQInit /\ max_workers = 1 /\ max_queue_size = 1
  /\ GenInit /\ max_concurrent_generations = SmallCap
  /\ UpUnused
  /\ FlowInit
  /\ BoUnused
  /\ CapUnused
  /\ LoopUnused
  /\ UtilUnused
  /\ ApiUnused

NextCap ==
  \/ \E r \in Requests, n \in CapJobs : CapBatchStarts(r, n)
  \/ \E r \in Requests, j \in CapJobs : CapJobAcquire(r, j)
  \/ \E r \in Requests, j \in CapJobs : CapJobReturns(r, j)
  \/ \E r \in Requests : CapBatchReturns(r)

SpecCap == InitCap /\ [][NextCap]_vars

(* one call of an entry point of the upscaler and another coroutine on the *)
(* same event loop                                                          *)
InitLoop == CoreUnused /\ ExtUnused

NextLoop ==
  \/ \E e \in EntryPoints, n \in Slots : CallEntryPoint(e, n)
  \/ \E i \in Slots : PoolThreadStarts(i)
  \/ \E i \in Slots : PoolThreadFinishes(i)
  \/ \E i \in Slots : AsCompletedYields(i)
  \/ SleepZeroReturns
  \/ AwaitedGatherReturns
  \/ OtherCoroutineRuns

SpecLoop == InitLoop /\ [][NextLoop]_vars

(* calls of the utility functions of the upscaler *)
InitUtil == CoreUnused /\ ExtUnused

NextUtil ==
  \/ \E u \in UtilCalls, fn \in UtilityFunctions, mw \in 0..MaxUpWorkers : UtilityCall(u, fn, mw)
  \/ \E u \in UtilCalls : PoolSpawnsThread(u)
  \/ \E u \in UtilCalls : UtilityReturns(u)
  \/ \E u \in UtilCalls, kind \in UtilExits : UtilityRaises(u, kind)

SpecUtil == InitUtil /\ [][NextUtil]_vars

(* submits and polls of the endpoints *)
InitApi == CoreUnused /\ ExtUnused

NextApi ==
  \/ \E r \in Requests : GenerateFashionImage(r)
  \/ \E r \in Requests : GenerateFashionImageRaises(r)
  \/ \E r \in Requests : ProcessGenerationStarts(r)
  \/ \E r \in Requests : ProcessGenerationCompletes(r)
  \/ \E r \in Requests : ProcessGenerationFails(r)
  \/ \E r \in Requests : ProcessGenerationCleanupRaises(r)
  \/ \E r \in Requests : CheckGenerationStatus(r)

SpecApi == InitApi /\ [][NextApi]_vars

(* the job list of one background-array call for every input: the call is  *)
(* followed up to the check of the built list (line 351), no job is run.   *)
(* The random counts reach past the length of the occasions list.          *)
RandomCounts == (0..MaxCount) \cup {BgOccasionCount, BgOccasionCount + 1}
JobRows == [view : BgViews, white : 0..MaxCount, plain : 0..MaxCount, random : RandomCounts]
JobConfigs ==
  {c \in UNION {[1..k -> JobRows] : k \in 0..MaxConfigViews} :
     \A a, b \in 1..Len(c) : a # b => c[a].view # c[b].view}

InitJobs ==
  /\ TQInit /\ max_workers = 1 /\ max_queue_size = 1
  /\ max_concurrent_generations = DefaultMaxConcurrentGenerations
  /\ gen_mode = "background"
  /\ gen_pc = "idle"
  /\ reference_image_paths_dict \in SUBSET BgViews
  /\ number_of_outputs = 0
  /\ background_config \in JobConfigs
  /\ gen_tasks = <<>>
  /\ gen_semaphore = 0
  /\ jpc = [j \in J |-> "none"]
  /\ attempt = [j \in J |-> 0]
  /\ jresult = [j \in J |-> NoImage]
  /\ last_fail = [j \in J |-> "none"]
  /\ all_variations = <<>>
  /\ primary_image = NoImage
  /\ gen_error = "none"
  /\ first_done = 0
  /\ UpUnused
  /\ FlowInit
  /\ ExtUnused

(* lines 262-352: the loop over background_config has built a list that is *)
(* not empty                                                                *)
BuildJobList ==
  /\ gen_pc = "idle"
  /\ reference_image_paths_dict # {}
  /\ BackgroundTasks(background_config, reference_image_paths_dict, 1) # <<>>
  /\ gen_tasks' = BackgroundTasks(background_config, reference_image_paths_dict, 1)
  /\ gen_pc' = "built"
  /\ UNCHANGED <<max_concurrent_generations, gen_mode, reference_image_paths_dict,
                 number_of_outputs, background_config, gen_semaphore, jpc, attempt,
                 jresult, last_fail, all_variations, primary_image, gen_error, first_done>>
  /\ UNCHANGED <<tqvars, upvars, flowvars, extvars>>

(* lines 351-352: `if not tasks: raise ValueError(...)`, or the ValueError  *)
(* of a call without reference images                                       *)
BuildJobListRaises ==
  /\ gen_pc = "idle"
  /\ \/ reference_image_paths_dict = {}
     \/ BackgroundTasks(background_config, reference_image_paths_dict, 1) = <<>>
  /\ gen_pc' = "raised"
  /\ gen_error' = IF reference_image_paths_dict = {} THEN "no_reference" ELSE "no_tasks"
  /\ UNCHANGED <<max_concurrent_generations, gen_mode, reference_image_paths_dict,
                 number_of_outputs, background_config, gen_tasks, gen_semaphore, jpc,
                 attempt, jresult, last_fail, all_variations, primary_image, first_done>>
  /\ UNCHANGED <<tqvars, upvars, flowvars, extvars>>

NextJobs ==
  \/ BuildJobList
  \/ BuildJobListRaises

SpecJobs == InitJobs /\ [][NextJobs]_vars

(* ======================= properties of the TaskQueue ==================== *)
(* the task is in the heap, held by a worker, or waiting to be put *)
Scheduled(t) ==
  \/ \E i \in 1..Len(queue) : queue[i].task = t
  \/ \E w \in WorkerIds : wtask[w] = t
  \/ t \in putters

(* the step in which the retry budget of task t runs out *)
Exhausts(t) ==
  /\ tasks[t].retry_count <= tasks[t].max_retries
  /\ tasks'[t].retry_count > tasks[t].max_retries

C1_Budget ==
  /\ \A t \in T : execs[t] <= tasks[t].max_retries + 1
  /\ \A t \in T : tasks[t].retry_count > tasks[t].max_retries =>
        /\ execs[t] = tasks[t].max_retries + 1
        /\ ~Scheduled(t)
  /\ \A r \in T : recs[r].status = "failed" =>
        /\ recs[r].error # NoTask
        /\ tasks[recs[r].error].retry_count = tasks[recs[r].error].max_retries + 1

IsFirst(e) ==
  \A i \in 1..Len(queue) :
    \/ e.pri < queue[i].pri
    \/ e.pri = queue[i].pri /\ e.seq <= queue[i].seq

(* a step in which a worker's queue.get() removes an entry *)
Dequeues == Len(queue') < Len(queue)

(* a step of add_task that ran queue.put_nowait and left without registering *)
(* a result record: the put raised                                           *)
AddRaises ==
  /\ nTasks' # nTasks \/ putters' # putters
  /\ Len(queue') > Len(queue)
  /\ results' = results

(* C2: whenever a worker dequeues, the entry it removes is the one with the  *)
(* smallest priority number and, among equal priorities, the one enqueued    *)
(* first, and that entry's task is the one the worker starts; no add_task    *)
(* call fails because two entries tie.                                       *)
C2_PriorityFifo ==
  [][/\ Dequeues => /\ IsFirst(queue[1])
                    /\ \E w \in WorkerIds : wtask'[w] = queue[1].task
     /\ ~AddRaises]_vars

StatusSteps ==
  {<<"none", "pending">>, <<"pending", "running">>, <<"running", "completed">>,
   <<"running", "failed">>, <<"running", "pending">>,
   <<"pending", "cancelled">>, <<"running", "cancelled">>}

(* C3: every status change of a result record is Pending->Running,           *)
(* Running->Completed, Running->Failed, Running->Pending or a move to        *)
(* Cancelled; a record in Completed, Failed or Cancelled keeps its status,   *)
(* result and error for ever.                                                *)
C3_StateMachine ==
  [][\A r \in T :
       /\ recs'[r].status # recs[r].status =>
            <<recs[r].status, recs'[r].status>> \in StatusSteps
       /\ recs[r].status \in Terminal =>
            /\ recs'[r].status = recs[r].status
            /\ recs'[r].result = recs[r].result
            /\ recs'[r].error = recs[r].error]_vars

C5_FailFast ==
  [][nTasks' # nTasks /\ QueueFull =>
       /\ putters' = putters
       /\ queue' = queue
       /\ results' = results
       /\ recs' = recs]_vars

(* a step that delivers the cancellation of stop() to worker w while w is    *)
(* inside _process_task, its task's record Running                           *)
CancelledRunning(w) ==
  /\ w \in wcancel
  /\ w \notin wcancel'
  /\ wpc[w] \in {"acquire", "exec", "reput"}
  /\ recs[wres[w]].status = "running"

(* C6: a task that is Running when stop() cancels its worker ends Cancelled, *)
(* and no record becomes Cancelled in any other step.                        *)
C6_CancelOutcome ==
  [][\A r \in T :
       (\E w \in WorkerIds : CancelledRunning(w) /\ wres[w] = r)
         <=> (recs[r].status # "cancelled" /\ recs'[r].status = "cancelled")]_vars

(* a step in which a stop() call returns: its gather is over, or it had no   *)
(* worker to wait for                                                        *)
StopReturns ==
  \/ \E S \in stops : S \notin stops'
  \/ is_running /\ ~is_running' /\ stops' = stops

(* C7: when stop() returns, is_running is false, the worker list is empty,   *)
(* no worker coroutine is alive (executing or waiting to dequeue) and        *)
(* running_tasks is empty.                                                   *)
C7_HardShutdown ==
  [][StopReturns =>
       /\ ~is_running'
       /\ workers' = {}
       /\ \A w \in WorkerIds : wpc'[w] \in {"none", "done"}
       /\ \A i \in TaskIds : running_tasks'[i] = NoTask]_vars

(* the number of task runnables that are executing: those awaited by a       *)
(* worker and those left running in a thread by a cancelled worker           *)
Executing == Cardinality({w \in WorkerIds : wpc[w] = "exec"}) + Cardinality(threads)

(* C8: at most max_workers runnables execute at a time, and the permits      *)
(* taken from the semaphore are exactly one per executing runnable.          *)
C8_ConcurrencyBound ==
  /\ Executing <= max_workers
  /\ max_workers - semaphore = Executing

(* ================ properties of the generation fan-out ================== *)
(* the jobs of the batch whose generate call returned an artifact *)
Succeeded == {j \in Jobs : jresult[j] # NoImage}

(* C9: when a batch returns, its variation map has exactly one entry per     *)
(* succeeded job, holding that job's artifact under that job's key; failed   *)
(* jobs have no entry, and no entry is missing or overwritten.               *)
C9_ResultSet ==
  gen_pc = "returned" =>
    /\ Len(all_variations) = Cardinality(Succeeded)
    /\ \A j \in Succeeded :
         \E i \in 1..Len(all_variations) :
           all_variations[i] = [key |-> KeyOf(gen_mode, gen_tasks[j]), value |-> j]
    /\ \A i \in 1..Len(all_variations) : all_variations[i].value \in Succeeded

C9_Witness ==
  /\ gen_pc = "returned"
  /\ gen_mode = "background"
  /\ Cardinality(Succeeded) = 2
  /\ Len(gen_tasks) = 3
  /\ \A j \in Succeeded : gen_tasks[j].view_name = "frontside"

(* C10: a batch that ran its jobs raises, with the all-tasks-failed error,   *)
(* exactly when no job produced an artifact; with at least one artifact it   *)
(* returns the non-empty partial map, however the other jobs failed.         *)
C10_BatchFailure ==
  gen_pc \in {"returned", "raised"} =>
    /\ gen_pc = "raised" <=> Succeeded = {}
    /\ gen_pc = "raised" /\ Jobs # {} => gen_error = "all_failed"
    /\ gen_pc = "returned" => all_variations # <<>> /\ gen_error = "none"

C10_Witness ==
  /\ gen_pc = "returned"
  /\ Cardinality(Succeeded) = 1
  /\ Cardinality({last_fail[j] : j \in Jobs \ Succeeded}) = 2

(* the part of the state that belongs to job j *)
JobState(j) == <<jpc[j], attempt[j], jresult[j], last_fail[j]>>

Holders == {j \in Jobs : jpc[j] \in {"call", "sleep"}}

(* C12: the jobs of a batch that hold a permit are never more than           *)
(* min(max_concurrent_generations, N), and the permits held plus the permits *)
(* free are always that number: a job gives its permit back with its outcome.*)
C12_ConcurrencyCap ==
  Jobs # {} =>
    /\ Cardinality(Holders) <= Min(max_concurrent_generations, Len(gen_tasks))
    /\ gen_semaphore + Cardinality(Holders) = Min(max_concurrent_generations, Len(gen_tasks))

C12_Witness ==
  /\ Len(gen_tasks) > max_concurrent_generations
  /\ Cardinality(Holders) = max_concurrent_generations
  /\ jpc[Len(gen_tasks)] = "sleep"
  /\ jpc[1] = "done"

(* the key carries the primary tag "frontside" *)
MatchesPrimaryTag(k) == StartsWithFrontside(k)

(* the first entry, in map order, whose key carries the tag, else the first  *)
FirstTagged(d) ==
  LET hits == {i \in 1..Len(d) : MatchesPrimaryTag(d[i].key)}
  IN  IF hits # {} THEN d[CHOOSE i \in hits : \A j \in hits : i <= j].value
      ELSE FirstValue(d)

(* C13: the primary artifact of a returned batch is the first entry of the   *)
(* variation map, in submission order, whose key matches the tag             *)
(* "frontside", and the first entry overall when no key matches.             *)
C13_PrimarySelection ==
  gen_pc = "returned" => primary_image = FirstTagged(all_variations)

(* ==================== properties of the ConcurrentUpscaler ============== *)
(* the value a returned dict holds under a key (keys are distinct) *)
ValueOf(d, k) == d[CHOOSE n \in 1..Len(d) : d[n].key = k].value
KeySet(d) == {d[n].key : n \in 1..Len(d)}

(* C14: whatever failed during a call of upscale_with_fallback on a         *)
(* non-empty map (an attempt raising, an attempt returning nothing, every   *)
(* attempt failing, the pool refusing the work item), the returned map has  *)
(* exactly the keys of the input, once each; a key whose job got upscaled   *)
(* bytes maps to them and a key whose job failed maps to its original bytes *)
C14_FallbackInvariant ==
  \A b \in Batches :
    (up_pc[b] = "returned" /\ images_dict[b] # <<>>) =>
       /\ Len(upscaled_images[b]) = Len(images_dict[b])
       /\ KeySet(upscaled_images[b]) = {images_dict[b][i] : i \in UpJobs(b)}
       /\ \A i \in UpJobs(b) :
            ValueOf(upscaled_images[b], images_dict[b][i]) =
              IF up_fail[b][i] = "none"
                THEN UpscaledBytes(images_dict[b][i])
                ELSE OriginalBytes(images_dict[b][i])

C14_Witness ==
  /\ up_pc = [b \in Batches |-> "returned"]
  /\ Len(images_dict[1]) = 2 /\ Len(images_dict[2]) = 2
  /\ up_fail[1][1] = "exception" /\ up_attempt[1][1] = UpMaxRetries
  /\ up_fail[1][2] = "none" /\ up_attempt[1][2] > 0
  /\ up_fail[2][1] = "empty"
  /\ up_fail[2][2] = "dispatch"

(* jobs that hold a permit of their own call's semaphore *)
Admitted == {p \in Batches \X Slots : upc[p[1]][p[2]] \in {"queued", "exec", "resume"}}

(* C15: on one upscaler instance the number of upscale operations that are  *)
(* executing at the same moment is never above max_workers, however many    *)
(* upscale_with_fallback calls are in progress on it                        *)
C15_ComputeBound == Cardinality(RunningThreads) <= up_max_workers

C15_Witness ==
  /\ up_pc = [b \in Batches |-> "running"]
  /\ Cardinality(Admitted) > up_max_workers
  /\ Cardinality(RunningThreads) = up_max_workers
  /\ work_queue # <<>>
  /\ \A b \in Batches : \E i \in Slots : upc[b][i] = "exec"

(* ================= properties of the ParallelWorkflowManager ============ *)
(* the stage a request is in, by the step its call is suspended in: Step 1  *)
(* is Analyzing, Step 2 Generating, Step 3 PostProcessing, Step 4           *)
(* Finalizing; a returned call is Done, a raised one Failed                 *)
StageOf(pc) ==
  CASE pc = "idle" -> "NotStarted"
    [] pc = "analysis" -> "Analyzing"
    [] pc = "generation" -> "Generating"
    [] pc = "gather" -> "PostProcessing"
    [] pc \in {"save_images", "save_video", "excel"} -> "Finalizing"
    [] pc = "returned" -> "Done"
    [] pc = "raised" -> "Failed"

Stage(r) == StageOf(flow_pc[r])

(* the stage changes a request may make: with neither branch requested      *)
(* Step 3 has nothing to await and the same run goes on to Step 4           *)
StageSteps(r) ==
  {<<"NotStarted", "Analyzing">>, <<"Analyzing", "Generating">>,
   <<"Generating", "PostProcessing">>, <<"PostProcessing", "Finalizing">>,
   <<"Finalizing", "Done">>}
  \cup {<<st, "Failed">> : st \in {"Analyzing", "Generating", "PostProcessing", "Finalizing"}}
  \cup (IF ~upscale[r] /\ ~isVideo[r] THEN {<<"Generating", "Finalizing">>} ELSE {})

(* C16: a request goes through Analyzing, Generating, PostProcessing and    *)
(* Finalizing in this order, each stage entered once and only when the one  *)
(* before it has finished, and ends either Done or Failed; a step that      *)
(* fails takes the request to Failed at once, never to a later stage        *)
C16_StageOrder ==
  /\ [][\A r \in Requests :
          Stage(r)' # Stage(r) =>
            /\ <<Stage(r), Stage(r)'>> \in StageSteps(r)
            /\ Stage(r)' \in {"PostProcessing", "Finalizing"} =>
                  all_variations_bytes_dict[r]' # EmptyDict
            /\ Stage(r)' = "Finalizing" => TaskDone(upscale_task[r]) /\ TaskDone(video_task[r])]_vars
  /\ [](\A r \in Requests : failed_in[r] # "none" <=> Stage(r) = "Failed")
  /\ [](\A r \in Requests : Stage(r) = "Done" <=> response[r].excel_report_url)

C16_Witness ==
  /\ flow_pc[1] = "returned" /\ upscale[1] /\ isVideo[1]
  /\ flow_pc[2] = "raised" /\ failed_in[2] = "save_video"

(* C17: a request whose analysis call failed is Failed, and for it no       *)
(* generation job was dispatched, no upscale or video task was created and  *)
(* nothing was saved                                                        *)
C17_FatalAnalysis ==
  \A r \in Requests :
    failed_in[r] = "analysis" =>
      /\ flow_pc[r] = "raised"
      /\ started[r] = {"analysis"}
      /\ upscale_task[r].pc = "none" /\ video_task[r].pc = "none"
      /\ persisted[r] = NothingPersisted

C17_Witness ==
  /\ failed_in[1] = "analysis" /\ upscale[1] /\ isVideo[1]
  /\ flow_pc[2] = "returned" /\ persisted[2].video

(* the generator call of the request has ended *)
GenerationEnded(r) == "generation" \in started[r] /\ flow_pc[r] # "generation"

(* C18: when no generation job of a request succeeded the request is Failed *)
(* with no upscale or video task created and nothing saved; when at least   *)
(* one succeeded the request went on to post-processing with the map of the *)
(* succeeded jobs                                                           *)
C18_FatalEmptyGeneration ==
  \A r \in Requests :
    GenerationEnded(r) =>
      IF gen_succeeded[r] = {}
        THEN /\ flow_pc[r] = "raised" /\ failed_in[r] = "generation"
             /\ started[r] = {"analysis", "generation"}
             /\ upscale_task[r].pc = "none" /\ video_task[r].pc = "none"
             /\ persisted[r] = NothingPersisted
        ELSE /\ failed_in[r] # "generation"
             /\ DOMAIN original_variations_bytes_dict[r] = gen_succeeded[r]
             /\ upscale[r] <=> "upscale" \in started[r]
             /\ isVideo[r] <=> "video" \in started[r]

C18_Witness ==
  /\ GenerationEnded(1) /\ gen_succeeded[1] = {} /\ upscale[1] /\ isVideo[1]
  /\ flow_pc[2] = "gather" /\ Cardinality(gen_succeeded[2]) = 1
  /\ upscale_task[2].pc = "running" /\ video_task[2].pc = "running"

(* the request has both branches *)
BothRequested(r) == upscale[r] /\ isVideo[r] /\ gen_succeeded[r] # {}

(* C19: with upscale and video both requested, both tasks exist before      *)
(* either of them runs or is awaited, and saving starts only when both have *)
(* reached an outcome                                                       *)
C19_JoinBarrier ==
  \A r \in Requests :
    BothRequested(r) =>
      /\ upscale_task[r].pc = "none" <=> video_task[r].pc = "none"
      /\ flow_pc[r] = "gather" => upscale_task[r].pc # "none" /\ video_task[r].pc # "none"
      /\ Stage(r) \in {"Finalizing", "Done"} =>
            upscale_task[r].pc \in TaskOutcomes /\ video_task[r].pc \in TaskOutcomes
      /\ persisted[r] # NothingPersisted =>
            upscale_task[r].pc \in TaskOutcomes /\ video_task[r].pc \in TaskOutcomes

C19_Witness ==
  /\ BothRequested(1) /\ flow_pc[1] = "gather"
  /\ upscale_task[1].pc = "running" /\ video_task[1].pc = "running"
  /\ BothRequested(2) /\ flow_pc[2] = "gather"
  /\ upscale_task[2].pc = "returned" /\ video_task[2].pc = "running"

(* the video task of the request ended without video bytes (it raised or    *)
(* isVideo returned None) and its upscale task returned a map               *)
VideoFailedUpscaleOk(r) ==
  /\ video_task[r].pc \in {"empty", "failed"}
  /\ upscale_task[r].pc = "returned"

(* C20: when the video task raises or returns nothing and the upscale task  *)
(* succeeds, the upscale task is not cancelled, no failure of the request   *)
(* comes from the video task, the map of the upscale task is what is saved  *)
(* and returned as the upscaled images, no video is saved or returned, and  *)
(* the request is Done when the saves and the report succeed                *)
C20_VideoFailureIndependence ==
  /\ [][\A r \in Requests :
          (video_task[r].pc = "running" /\ video_task[r]'.pc \in {"empty", "failed"}) =>
             /\ upscale_task[r]' = upscale_task[r]
             /\ flow_pc[r]' = flow_pc[r]]_vars
  /\ [](\A r \in Requests :
          VideoFailedUpscaleOk(r) =>
             /\ Stage(r) = "Failed" => failed_in[r] \in {"save_images", "excel"}
             /\ ~persisted[r].video
             /\ flow_pc[r] \in {"save_video", "excel", "returned"} =>
                   persisted[r].upscaled = upscale_task[r].dict
             /\ flow_pc[r] = "returned" =>
                   /\ response[r].upscale_image = upscale_task[r].dict
                   /\ ~response[r].output_video_url)

C20_Witness ==
  /\ flow_pc[1] = "returned" /\ video_task[1].pc = "failed"
  /\ upscale_task[1].pc = "returned" /\ \E k \in DOMAIN upscale_task[1].dict : upscale_task[1].dict[k] = "upscaled"
  /\ flow_pc[2] = "returned" /\ video_task[2].pc = "empty"
  /\ upscale_task[2].pc = "returned" /\ Cardinality(DOMAIN upscale_task[2].dict) = 2

(* the entries of a saved upscaled map that hold the generated bytes *)
FallbackEntries(d) == {k \in DOMAIN d : d[k] = "generated"}

(* C21 as the spec states it: a returned request with 9 jobs of which 7     *)
(* succeeded reports 7 variations and, with upscale requested, has saved an *)
(* upscaled map of 9 entries, 2 of them by fallback                         *)
C21_AsStated ==
  \A r \in Requests :
    (/\ flow_pc[r] = "returned" /\ upscale[r]
     /\ Cardinality(job_keys[r]) = 9 /\ Cardinality(gen_succeeded[r]) = 7) =>
       /\ response[r].total_variations = 7
       /\ Cardinality(DOMAIN persisted[r].upscaled) = 9
       /\ Cardinality(FallbackEntries(persisted[r].upscaled)) = 2

(* C21, amended: a request of which some generation jobs succeeded never    *)
(* fails in the generation; when it returns it reports as many variations   *)
(* as jobs succeeded and, with upscale requested, the saved upscaled map    *)
(* has exactly the keys of the succeeded jobs, each with its upscaled bytes *)
(* or, by fallback, its generated bytes; a failed job has no entry          *)
C21_EndToEnd ==
  \A r \in Requests :
    gen_succeeded[r] # {} =>
      /\ failed_in[r] \notin {"analysis", "generation"}
      /\ flow_pc[r] = "returned" =>
            /\ response[r].total_variations = Cardinality(gen_succeeded[r])
            /\ response[r].image_variations = gen_succeeded[r]
            /\ upscale[r] =>
                  /\ DOMAIN persisted[r].upscaled = gen_succeeded[r]
                  /\ response[r].upscale_image = persisted[r].upscaled
                  /\ upscale_task[r].pc = "returned" =>
                        persisted[r].upscaled = upscale_task[r].dict
                  /\ upscale_task[r].pc = "failed" =>
                        FallbackEntries(persisted[r].upscaled) = gen_succeeded[r]

C21_Witness ==
  /\ flow_pc[1] = "returned" /\ upscale[1]
  /\ Cardinality(job_keys[1]) = 9 /\ Cardinality(gen_succeeded[1]) = 7
  /\ response[1].total_variations = 7
  /\ Cardinality(DOMAIN persisted[1].upscaled) = 7
  /\ Cardinality(FallbackEntries(persisted[1].upscaled)) = 2

(* ================ further properties of the TaskQueue ================== *)
(* C22: a task that has failed k times with retries remaining waits in the  *)
(* queue at its original priority plus k times the penalty                  *)
C22_RetryDemotion ==
  \A i \in 1..Len(queue) :
    queue[i].pri = tasks[queue[i].task].priority
                     + tasks[queue[i].task].retry_count * PriorityPenalty

(* C30: no two tasks given to one queue share an id, and an add_task with   *)
(* an id that is in the results registry leaves the entry of that id, the   *)
(* record of the earlier task, in place                                     *)
C30_IdUniqueness ==
  /\ [](\A u, v \in 1..nTasks : u # v => tasks[u].task_id # tasks[v].task_id)
  /\ [][\A id \in TaskIds : results[id] # NoTask => results[id]' = results[id]]_vars

(* the queue was started once and stop() was never called *)
NeverStopped == is_running /\ nWorkers = max_workers /\ stops = {} /\ wcancel = {}

(* C32: on a queue that is never stopped the workers are never all          *)
(* suspended in the put of a retry on a full queue: in such a state no      *)
(* worker can take an entry out of the queue again, so neither the tasks    *)
(* being retried nor the queued ones ever reach Completed or Failed         *)
C32_Progress ==
  ~(/\ NeverStopped
    /\ workers # {}
    /\ QueueFull
    /\ \A w \in workers : wpc[w] = "reput")

(* C33: in every state another coroutine can observe, a result record has   *)
(* status Running exactly when its task is in running_tasks, so the         *)
(* running_tasks count of get_queue_status is the number of Running records *)
C33_StatusConsistency ==
  /\ \A id \in TaskIds :
       results[id] # NoTask =>
         (recs[results[id]].status = "running" <=> running_tasks[id] # NoTask)
  /\ Cardinality({id \in TaskIds : running_tasks[id] # NoTask})
       = Cardinality({id \in TaskIds : results[id] # NoTask
                                         /\ recs[results[id]].status = "running"})

(* C34: a worker begins to process a task (registers it in running_tasks)   *)
(* only when add_task has created the result record of that task           *)
C34_EnqueueAtomicity ==
  [][\A id \in TaskIds :
       (running_tasks[id]' # NoTask /\ running_tasks[id]' # running_tasks[id]) =>
         recs[running_tasks[id]'].status # "none"]_vars

(* the Task objects that have an entry in the priority queue *)
QueuedTasks == {queue[i].task : i \in 1..Len(queue)}

(* a task that is queued with the Pending record add_task made for it and   *)
(* was never taken by a worker                                              *)
NeverStarted(t) ==
  /\ t \in QueuedTasks
  /\ recs[t] = PendingRec

(* a worker has taken the task: its record is Running and it is registered *)
TakenByWorker(t) ==
  /\ t \notin QueuedTasks
  /\ recs[results[tasks[t].task_id]].status = "running"
  /\ running_tasks[tasks[t].task_id] = t

(* C35: a queued, never started task stays queued with status Pending over  *)
(* every step, stop() included, until a worker takes it; while the queue is *)
(* stopped no step takes it                                                 *)
C35_PendingAcrossStop ==
  [][\A t \in T : NeverStarted(t) =>
       /\ NeverStarted(t)' \/ TakenByWorker(t)'
       /\ ~is_running => NeverStarted(t)']_vars

(* ================ further properties of the workflow ==================== *)
(* the upscale task of a request that asked for upscaling ended in its      *)
(* except clause                                                            *)
UpscaleBranchFailed(r) == upscale[r] /\ upscale_task[r].pc = "failed"

(* C37: the failure of the upscale task leaves the video task and the       *)
(* request as they are; no failure of the request comes from it; the saved  *)
(* upscaled map is then the map of the generated images, every key with its *)
(* generated bytes; and every returned request with upscaling has saved     *)
(* original and upscaled maps with the same keys                            *)
C37_UpscaleFailureTolerance ==
  /\ [][\A r \in Requests :
          (upscale_task[r].pc = "running" /\ upscale_task[r]'.pc = "failed") =>
             /\ video_task[r]' = video_task[r]
             /\ flow_pc[r]' = flow_pc[r]]_vars
  /\ [](\A r \in Requests :
          /\ UpscaleBranchFailed(r) =>
                /\ Stage(r) = "Failed" => failed_in[r] \in {"save_images", "save_video", "excel"}
                /\ flow_pc[r] \in {"save_video", "excel", "returned"} =>
                      /\ persisted[r].upscaled = original_variations_bytes_dict[r]
                      /\ persisted[r].upscaled = GeneratedDict(gen_succeeded[r])
                /\ (flow_pc[r] = "returned" /\ video_task[r].pc = "returned") =>
                      (persisted[r].video /\ response[r].output_video_url)
          /\ (flow_pc[r] = "returned" /\ upscale[r]) =>
                /\ DOMAIN persisted[r].original = DOMAIN persisted[r].upscaled
                /\ DOMAIN persisted[r].upscaled # {})

C37_Witness ==
  /\ flow_pc[1] = "returned" /\ UpscaleBranchFailed(1)
  /\ video_task[1].pc = "returned" /\ persisted[1].video
  /\ Cardinality(DOMAIN persisted[1].upscaled) = 2
  /\ flow_pc[2] = "returned" /\ upscale[2] /\ upscale_task[2].pc = "returned"
  /\ \E k \in DOMAIN persisted[2].upscaled : persisted[2].upscaled[k] = "upscaled"

(* ============ further properties of the submit and poll endpoints ======= *)
(* C38: the status the polls of a request report changes at most once, from *)
(* processing to completed or to failed; after a poll has reported          *)
(* completed or failed every later poll reports the same, also when the     *)
(* removal of the temporary files raised                                    *)
C38_PollMonotonicity ==
  [][\A r \in Requests :
       /\ poll_answer[r] \in {"completed", "failed"} => poll_answer[r]' = poll_answer[r]
       /\ poll_answer[r] = "processing" => poll_answer[r]' \in Statuses]_vars

C38_Witness ==
  /\ cleanup_raised[1] /\ poll_answer[1] = "failed"
  /\ ~cleanup_raised[2] /\ poll_answer[2] = "completed" /\ api_pc[2] = "done"

(* ================ further properties of the upscaler ==================== *)
(* C36: when an entry point of the upscaler has returned, the returned map  *)
(* lists the keys in the order of the input map, whatever the order in      *)
(* which the upscale operations finished                                    *)
C36_OutputOrder ==
  cu_pc = "returned" =>
    \A k \in 1..Len(concurrent_images) : concurrent_images[k] = k

(* ============ further properties of the ConcurrentImageGenerator ======== *)
(* the white, plain and random counts requested for the configured views    *)
(* that have a reference image                                              *)
RECURSIVE RequestedJobs(_, _, _)
RequestedJobs(config, refs, i) ==
  IF i > Len(config) THEN 0
  ELSE (IF config[i].view \in refs
        THEN config[i].white + config[i].plain + config[i].random
        ELSE 0) + RequestedJobs(config, refs, i + 1)

(* C39: the job list built for a background-array call has as many jobs as  *)
(* white, plain and random images were requested for the configured views   *)
(* that have a reference image, the job ids are pairwise distinct, and no   *)
(* job is of a view without a reference image                               *)
C39_JobListSize ==
  gen_pc = "built" =>
    /\ Len(gen_tasks) = RequestedJobs(background_config, reference_image_paths_dict, 1)
    /\ \A a, b \in 1..Len(gen_tasks) : a # b => gen_tasks[a].task_id # gen_tasks[b].task_id
    /\ \A a \in 1..Len(gen_tasks) : gen_tasks[a].view_name \in reference_image_paths_dict

(* C31: the variation map of a returned batch lists the succeeded jobs in   *)
(* the order of the job list, whichever job ended first: entry number n is  *)
(* the n-th succeeded job of the list, under that job's key                 *)
C31_MapOrder ==
  gen_pc = "returned" =>
    /\ \A a, b \in 1..Len(all_variations) :
         a < b => all_variations[a].value < all_variations[b].value
    /\ \A a \in 1..Len(all_variations) :
         /\ all_variations[a].value \in Succeeded
         /\ all_variations[a].key = KeyOf(gen_mode, gen_tasks[all_variations[a].value])

C31_Witness ==
  /\ gen_pc = "returned"
  /\ gen_mode = "background"
  /\ Len(gen_tasks) = 3
  /\ first_done = 3
  /\ attempt[1] > 0
  /\ Len(all_variations) = 3
  /\ all_variations[1].value = 1 /\ all_variations[3].value = 3

(* C23: a generation job calls the generator at most GenMaxRetries times    *)
(* (the first attempt and GenMaxRetries - 1 retries); the first attempt     *)
(* starts without a wait and every retry after a backoff sleep; a failed    *)
(* attempt, whether it raised, timed out or returned nothing, leads to the  *)
(* next attempt or, after the last one, to the job returning None; a        *)
(* successful attempt ends the job, and a job that has ended stays ended    *)
C23_RetryBound ==
  /\ [](\A j \in Jobs : attempt[j] < GenMaxRetries)
  /\ [][\A j \in Jobs :
          /\ (jpc[j] # "call" /\ jpc[j]' = "call") =>
                \/ jpc[j] = "acquire" /\ attempt[j]' = 0
                \/ jpc[j] = "sleep" /\ attempt[j]' >= 1
          /\ jpc[j]' = "sleep" /\ jpc[j] # "sleep" =>
                jpc[j] = "call" /\ attempt[j]' = attempt[j] + 1
          /\ attempt[j]' # attempt[j] => jpc[j] = "call" /\ jpc[j]' = "sleep"
          /\ (jpc[j] = "call" /\ jpc[j]' = "done") =>
                /\ gen_pc' = gen_pc
                /\ jresult[j]' = NoImage =>
                      ~HasNextAttempt(attempt[j]) /\ last_fail[j]' \in FailureKinds
          /\ jpc[j] = "done" => jpc[j]' = "done" /\ jresult[j]' = jresult[j]]_vars

C23_Witness ==
  /\ gen_pc = "returned" /\ Len(gen_tasks) = 3
  /\ last_fail[1] = "empty" /\ attempt[1] = GenMaxRetries - 1
  /\ last_fail[2] = "exception" /\ attempt[2] = GenMaxRetries - 1
  /\ jresult[3] # NoImage /\ attempt[3] = GenMaxRetries - 1

(* C24: the delay before retry number a is 2^a seconds plus a jitter of     *)
(* less than a second, and two jobs of a batch whose attempts failed at the *)
(* same moment did not get the same delay, so their retries are not due at  *)
(* the same moment                                                          *)
C24_Jitter ==
  /\ \A j \in BoJobs : bo_pc[j] = "sleep" =>
        /\ delay[j] >= Pow2(bo_attempt[j]) * TicksPerSecond
        /\ delay[j] < (Pow2(bo_attempt[j]) + 1) * TicksPerSecond
  /\ \A j1, j2 \in BoJobs :
        (j1 # j2 /\ bo_pc[j1] = "sleep" /\ bo_pc[j2] = "sleep"
           /\ failed_at[j1] = failed_at[j2]) =>
          delay[j1] # delay[j2] /\ wake[j1] # wake[j2]

(* ============== further properties of the ConcurrentUpscaler ============ *)
(* C25: no key of a batch is attempted more than twice: its upscale is      *)
(* called once and, after a failure, once more                              *)
C25_RetryOnce ==
  \A b \in Batches, i \in Slots :
    upc[b][i] # "none" => up_attempt[b][i] + 1 <= 2

(* a call of a utility function that has ended, in whatever way *)
UtilEnded(u) == util_pc[u] \in {"returned", "raised"} \cup UtilExits

(* C28: when a call of upscale_images_parallel or of                        *)
(* upscale_with_original_fallback has ended, by return, by an exception or  *)
(* by cancellation, the executor it created is shut down and none of its    *)
(* threads is alive; a call whose constructor raised created no executor    *)
C28_PoolRelease ==
  \A u \in UtilCalls :
    UtilEnded(u) =>
      /\ pool[u].state # "alive"
      /\ pool[u].state = "none" <=> pool[u] = NoPool
      /\ pool_threads[u] = 0

C28_Witness ==
  /\ util_pc[1] = "returned" /\ util_fn[1] = "upscale_images_parallel"
  /\ pool[1].state = "shutdown" /\ pool[1].max_workers = MaxUpWorkers
  /\ util_pc[2] = "cancelled" /\ util_fn[2] = "upscale_with_original_fallback"
  /\ pool[2].state = "shutdown"

(* ================= properties over concurrent requests ================== *)
(* the remote generation calls in flight, over all requests *)
CallsInFlight == {p \in Requests \X CapJobs : cap_jpc[p[1]][p[2]] = "call"}

(* C26: over all requests processed at a time, the remote generation calls  *)
(* in flight are at most max_concurrent_generations                         *)
C26_GlobalCap == Cardinality(CallsInFlight) <= max_concurrent_generations

(* C27: while the call of either entry point waits for the pool threads to  *)
(* finish the work of its images, the other coroutine, when it has a step   *)
(* to run, can run it                                                       *)
C27_Suspension ==
  (cu_pc \in {"awaiting", "as_completed"} /\ Unfinished # {}
     /\ other_steps < MaxOtherSteps) =>
    ENABLED OtherCoroutineRuns

(* C29: a poll for a request_id that submit has returned is answered with   *)
(* one of the statuses, never with `not found`                              *)
C29_PollVisibility ==
  \A r \in Requests : poll_answer[r] # "none" => poll_answer[r] \in Statuses
====
